---- MODULE Spec2Model ----
(***************************************************************************)
(* A model of the toolserver (crates/toolserver/src/main.rs): the SQLite   *)
(* tables it keeps (projects, artifacts, pool_items, consents, profile,    *)
(* events), the files under DATA_DIR, and its request handlers.            *)
(*                                                                         *)
(* Conventions.                                                            *)
(*  - A text value (a URL, a kind, an out_path) is a sequence of atoms; an  *)
(*    atom is a run of characters the code never looks inside except as    *)
(*    modelled by IsSpace, Lower and SanitizeChar.  A stored file path is  *)
(*    the sequence of its '/'-separated components.                        *)
(*  - Option<T> is a sequence of length 0 (None) or 1 (Some).              *)
(*  - A handler is an operator from the store ("world") and the request to *)
(*    the store it leaves and its response; the action commits both.       *)
(*  - Uuid::new_v4() is a fresh value: the n-th one drawn is Uuid(n).      *)
(*  - now_ms() reads the variable clock, which Tick advances.              *)
(***************************************************************************)
EXTENDS Integers, Sequences, FiniteSets, TLC

VARIABLES
    app,         \* AppState: [ffmpeg, ffprobe, ytdlp], detected at startup
    projects,    \* table projects: the set of project ids
    artifacts,   \* table artifacts: rows in rowid order
    pool_items,  \* table pool_items: rows in rowid order
    consents,    \* table consents: project_id -> row, for the rows that exist
    events,      \* table events: rows in rowid order
    profile,     \* table profile: no row (<<>>) or the row with id = 1 (<<p>>)
    files,       \* files under DATA_DIR: path -> [size, mtime, dur]
    uuid,        \* how many uuids were drawn so far
    clock,       \* now_ms()
    calls,       \* external tool invocations made by the latest request
    req,         \* the latest request
    resp,        \* its response
    pc,          \* concurrent workers: position of each worker in its handler
    loc          \* concurrent workers: each worker's request and locals

vars == <<app, projects, artifacts, pool_items, consents, events, profile, files,
          uuid, clock, calls, req, resp, pc, loc>>

-----------------------------------------------------------------------------
(* Bounds of the model *)

MaxClock == 1
MaxEvents == 3
MaxUuid == 14
MaxProjects == 1
NumWorkers == 2
MaxConsentEvents == 4
MaxFfmpegEvents == 5
MaxVideos == 1
MaxExportEvents == 4
MaxProfileEvents == 5
MaxKindLen == 400
MaxRemoteEvents == 4
MaxFaultEvents == 4
MaxPipelineEvents == 4
MaxImportEvents == 5

\* derivation of several videos: the events served, the videos imported
MaxRederiveEvents == 7
MaxInputs == 2

\* probed durations: multiples of DurationStep ms up to MaxDurationSteps of them
MaxDurationSteps == 130
DurationStep == 125

\* selection of pool items: the events served, the projects created
MaxSelectEvents == 6
MaxSelectProjects == 2

\* concurrent exports: the events served
MaxSeenEvents == 9

-----------------------------------------------------------------------------
(* Text helpers *)

Some(x) == <<x>>
None == <<>>

IsSpace(a) == a = " "

RECURSIVE TrimStart(_)
TrimStart(s) ==
    IF s # <<>> /\ IsSpace(Head(s)) THEN TrimStart(Tail(s)) ELSE s

RECURSIVE TrimEnd(_)
TrimEnd(s) ==
    IF s # <<>> /\ IsSpace(s[Len(s)]) THEN TrimEnd(SubSeq(s, 1, Len(s) - 1)) ELSE s

\* str::trim
Trim(s) == TrimEnd(TrimStart(s))

\* the concatenation of the atoms of s, as one component
RECURSIVE Join(_)
Join(s) == IF s = <<>> THEN "" ELSE Head(s) \o Join(Tail(s))

\* str::starts_with for a prefix that is one atom
StartsWith(s, a) == s # <<>> /\ Head(s) = a

Uuid(n) == "u" \o ToString(n)

Max(a, b) == IF a >= b THEN a ELSE b

-----------------------------------------------------------------------------
(* The store *)

World ==
    [projects |-> projects, artifacts |-> artifacts, pool_items |-> pool_items,
     consents |-> consents, events |-> events, profile |-> profile,
     files |-> files, uuid |-> uuid, calls |-> <<>>]

Commit(w) ==
    /\ projects' = w.projects
    /\ artifacts' = w.artifacts
    /\ pool_items' = w.pool_items
    /\ consents' = w.consents
    /\ events' = w.events
    /\ profile' = w.profile
    /\ files' = w.files
    /\ uuid' = w.uuid
    /\ calls' = w.calls

\* INSERT INTO events (project_id, ts_ms, level, message, ...)
AddEvent(w, project_id, ts_ms, level, message) ==
    [w EXCEPT !.events = Append(@, [project_id |-> project_id, ts_ms |-> ts_ms,
                                    level |-> level, message |-> message])]

\* std::fs::write: the file at path now has these bytes, written now
WriteFile(w, path, size, dur) ==
    [w EXCEPT !.files = [q \in DOMAIN @ \cup {path} |->
        IF q = path THEN [size |-> size, mtime |-> clock, dur |-> dur] ELSE @[q]]]

FileExists(w, path) == path \in DOMAIN w.files

ProjectExists(w, project_id) == project_id \in w.projects

Err(status) == [status |-> status]

\* the rows of the artifacts table matching (project_id, kind, path), by rowid
ArtifactHits(w, project_id, kind, path) ==
    {i \in 1..Len(w.artifacts) :
        /\ w.artifacts[i].project_id = project_id
        /\ w.artifacts[i].kind = kind
        /\ w.artifacts[i].path = path}

MinOf(S) == CHOOSE i \in S : \A j \in S : i <= j

InsertArtifact(w, project_id, kind, path, created_at_ms) ==
    LET row == [id |-> Uuid(w.uuid + 1), project_id |-> project_id, kind |-> kind,
                path |-> path, created_at_ms |-> created_at_ms]
    IN [w |-> [w EXCEPT !.artifacts = Append(@, row), !.uuid = @ + 1], art |-> row]

ensure_artifact_always_inserts(w, project_id, kind, path, created_at_ms) ==
    InsertArtifact(w, project_id, kind, path, created_at_ms)

ensure_artifact_restamps(w, project_id, kind, path, created_at_ms) ==
    LET hits == ArtifactHits(w, project_id, kind, path)
    IN IF hits # {}
       THEN [w |-> w,
             art |-> [w.artifacts[MinOf(hits)] EXCEPT !.created_at_ms = created_at_ms]]
       ELSE InsertArtifact(w, project_id, kind, path, created_at_ms)

ensure_artifact_replaces_row(w, project_id, kind, path, created_at_ms) ==
    LET hits == ArtifactHits(w, project_id, kind, path)
        row == [id |-> Uuid(w.uuid + 1), project_id |-> project_id, kind |-> kind,
                path |-> path, created_at_ms |-> created_at_ms]
    IN IF hits # {}
       THEN [w |-> [w EXCEPT !.uuid = @ + 1, !.artifacts[MinOf(hits)] = row],
             art |-> row]
       ELSE InsertArtifact(w, project_id, kind, path, created_at_ms)

\* a registration that moves the row of a registered path to the new time
ensure_artifact_touches_row(w, project_id, kind, path, created_at_ms) ==
    LET hits == ArtifactHits(w, project_id, kind, path)
    IN IF hits # {}
       THEN [w |-> [w EXCEPT !.artifacts[MinOf(hits)].created_at_ms = created_at_ms],
             art |-> [w.artifacts[MinOf(hits)] EXCEPT !.created_at_ms = created_at_ms]]
       ELSE InsertArtifact(w, project_id, kind, path, created_at_ms)

ensure_artifact(w, project_id, kind, path, created_at_ms) ==
    LET hits == ArtifactHits(w, project_id, kind, path)
    IN IF hits # {}
       THEN [w |-> w,
             art |-> [id |-> w.artifacts[MinOf(hits)].id, project_id |-> project_id,
                      kind |-> kind, path |-> path,
                      created_at_ms |-> w.artifacts[MinOf(hits)].created_at_ms]]
       ELSE InsertArtifact(w, project_id, kind, path, created_at_ms)

-----------------------------------------------------------------------------
(* File names and out paths *)

\* what sanitize_file_name makes of one atom: ASCII alphanumerics, '.', '-'
\* and '_' are kept, every other character becomes '_'
SanitizeChar(a) ==
    CASE a = " " -> "_"
      [] a = "/" -> "_"
      [] a = "\\" -> "_"
      [] a = "#" -> "_"
      [] a = ":" -> "_"
      [] a = "@" -> "_"
      [] a = "http://" -> "http___"
      [] a = "https://" -> "https___"
      [] a = "ftp://" -> "ftp___"
      [] OTHER -> a

RECURSIVE StripLeadingDots(_)
StripLeadingDots(s) ==
    IF s # <<>> /\ Head(s) = "." THEN StripLeadingDots(Tail(s)) ELSE s

SanitizedAtoms(name) ==
    StripLeadingDots([i \in 1..Len(name) |-> SanitizeChar(name[i])])

sanitize_file_name(name) ==
    IF SanitizedAtoms(name) = <<>> THEN "video" ELSE Join(SanitizedAtoms(name))

\* file_name_safe.trim_matches('_').is_empty()
OnlyUnderscores(name) ==
    /\ SanitizedAtoms(name) # <<>>
    /\ \A i \in 1..Len(SanitizedAtoms(name)) : SanitizedAtoms(name)[i] = "_"

\* str::split('/') after replace('\\', "/"): the segments between separators
RECURSIVE SplitSlash(_, _)
SplitSlash(s, cur) ==
    IF s = <<>> THEN <<cur>>
    ELSE IF Head(s) = "/" \/ Head(s) = "\\"
         THEN <<cur>> \o SplitSlash(Tail(s), <<>>)
         ELSE SplitSlash(Tail(s), Append(cur, Head(s)))

RECURSIVE KeepSegments(_)
KeepSegments(segs) ==
    IF segs = <<>> THEN <<>>
    ELSE LET t == Trim(Head(segs))
         IN IF t = <<>> \/ Join(t) = "." \/ Join(t) = ".."
            THEN KeepSegments(Tail(segs))
            ELSE <<sanitize_file_name(t)>> \o KeepSegments(Tail(segs))

\* Option<String>: the cleaned relative path, as its components
sanitize_out_path(out_path) ==
    LET parts == KeepSegments(SplitSlash(out_path, <<>>))
    IN IF parts = <<>> THEN None ELSE Some(parts)

\* project_id.trim().is_empty(), for the ids a request can carry
IsBlankId(id) == id = "" \/ id = " "

-----------------------------------------------------------------------------
(* Handlers: projects and plain artifacts.  Each returns [w, resp].        *)

create_project(w) ==
    LET project_id == Uuid(w.uuid + 1)
        w1 == [w EXCEPT !.projects = @ \cup {project_id}, !.uuid = @ + 1]
    IN [w |-> AddEvent(w1, project_id, clock, "info", "project_created"),
        resp |-> [status |-> "ok", id |-> project_id, created_at_ms |-> clock]]

add_input_url_checks_late(w, project_id, raw_url) ==
    LET url == Trim(raw_url)
    IN IF IsBlankId(project_id) THEN [w |-> w, resp |-> Err("bad_request")]
       ELSE IF ~ProjectExists(w, project_id) THEN [w |-> w, resp |-> Err("not_found")]
       ELSE LET ins == InsertArtifact(w, project_id, <<"input_url">>, url, clock)
            IN IF ~(StartsWith(url, "http://") \/ StartsWith(url, "https://"))
               THEN [w |-> ins.w, resp |-> Err("bad_request")]
               ELSE [w |-> AddEvent(ins.w, project_id, clock, "info", "input_url_added"),
                     resp |-> [status |-> "ok", artifact |-> ins.art]]

add_input_url(w, project_id, raw_url) ==
    LET url == Trim(raw_url)
    IN IF IsBlankId(project_id) THEN [w |-> w, resp |-> Err("bad_request")]
       ELSE IF url = <<>> THEN [w |-> w, resp |-> Err("bad_request")]
       ELSE IF ~(StartsWith(url, "http://") \/ StartsWith(url, "https://"))
       THEN [w |-> w, resp |-> Err("bad_request")]
       ELSE IF ~ProjectExists(w, project_id) THEN [w |-> w, resp |-> Err("not_found")]
       ELSE LET ins == InsertArtifact(w, project_id, <<"input_url">>, url, clock)
            IN [w |-> AddEvent(ins.w, project_id, clock, "info", "input_url_added"),
                resp |-> [status |-> "ok", artifact |-> ins.art]]

\* upload: Option<[name, size, dur]>, the multipart field named "file"
import_local_video(w, project_id, upload) ==
    IF IsBlankId(project_id) THEN [w |-> w, resp |-> Err("bad_request")]
    ELSE IF ~ProjectExists(w, project_id) THEN [w |-> w, resp |-> Err("not_found")]
    ELSE IF upload = None THEN [w |-> w, resp |-> Err("bad_request")]
    ELSE LET f == upload[1]
             file_name == Uuid(w.uuid + 1) \o "_" \o sanitize_file_name(f.name)
             rel_path == <<"projects", project_id, "media", file_name>>
             w1 == WriteFile([w EXCEPT !.uuid = @ + 1], rel_path, f.size, f.dur)
             ins == InsertArtifact(w1, project_id, <<"input_video">>, rel_path, clock)
         IN [w |-> AddEvent(ins.w, project_id, clock, "info", "input_video_imported"),
             resp |-> [status |-> "ok", artifact |-> ins.art, bytes |-> f.size,
                       file_name |-> file_name]]

upload_file_artifact(w, project_id, upload) ==
    IF IsBlankId(project_id) THEN [w |-> w, resp |-> Err("bad_request")]
    ELSE IF ~ProjectExists(w, project_id) THEN [w |-> w, resp |-> Err("not_found")]
    ELSE IF upload = None THEN [w |-> w, resp |-> Err("bad_request")]
    ELSE LET f == upload[1]
             file_name == IF OnlyUnderscores(f.name) THEN "upload"
                          ELSE sanitize_file_name(f.name)
             rel_path == <<"projects", project_id, "uploads",
                           ToString(clock) \o "-" \o file_name>>
             w1 == WriteFile(w, rel_path, f.size, f.dur)
             ens == ensure_artifact(w1, project_id, <<"upload">>, rel_path, clock)
         IN [w |-> AddEvent(ens.w, project_id, clock, "info", "upload"),
             resp |-> [status |-> "ok", artifact |-> ens.art, bytes |-> f.size,
                       file_name |-> file_name]]

\* content: [size, dur], the bytes of the request's content string
create_text_artifact(w, project_id, raw_kind, raw_out_path, content) ==
    LET kind == Trim(raw_kind)
        safe == sanitize_out_path(Trim(raw_out_path))
    IN IF IsBlankId(project_id) THEN [w |-> w, resp |-> Err("bad_request")]
       ELSE IF kind = <<>> THEN [w |-> w, resp |-> Err("bad_request")]
       ELSE IF safe = None THEN [w |-> w, resp |-> Err("bad_request")]
       ELSE IF ~ProjectExists(w, project_id) THEN [w |-> w, resp |-> Err("not_found")]
       ELSE LET rel_path == <<"projects", project_id, "out">> \o safe[1]
                w1 == WriteFile(w, rel_path, content.size, content.dur)
                ens == ensure_artifact(w1, project_id, kind, rel_path, clock)
            IN [w |-> AddEvent(ens.w, project_id, clock, "info", "text_artifact"),
                resp |-> [status |-> "ok", artifact |-> ens.art]]

-----------------------------------------------------------------------------
(* Consent gate *)

\* SELECT consented, auto_confirm FROM consents: (false, false) without a row
StoredConsent(w, project_id) ==
    IF project_id \in DOMAIN w.consents
    THEN [consented |-> w.consents[project_id].consented,
          auto_confirm |-> w.consents[project_id].auto_confirm]
    ELSE [consented |-> FALSE, auto_confirm |-> FALSE]

\* Option<bool>::unwrap_or
UnwrapOr(opt, default) == IF opt = None THEN default ELSE opt[1]

merge_consent_keeps_auto_confirm(existing, req_consented, req_auto_confirm) ==
    [consented |-> UnwrapOr(req_consented, existing.consented),
     auto_confirm |-> UnwrapOr(req_auto_confirm, existing.auto_confirm)]

\* a merge that takes an omitted field as false
merge_consent_defaults_omitted(existing, req_consented, req_auto_confirm) ==
    LET consented == UnwrapOr(req_consented, FALSE)
        auto_confirm == UnwrapOr(req_auto_confirm, FALSE)
    IN [consented |-> consented,
        auto_confirm |-> IF ~consented THEN FALSE ELSE auto_confirm]

\* the merge of the request over the stored row, auto_confirm cleared
\* whenever the result is not consented
merge_consent(existing, req_consented, req_auto_confirm) ==
    LET consented == UnwrapOr(req_consented, existing.consented)
        auto_confirm == UnwrapOr(req_auto_confirm, existing.auto_confirm)
    IN [consented |-> consented,
        auto_confirm |-> IF ~consented THEN FALSE ELSE auto_confirm]

PutConsent_keeps_auto_confirm(w, project_id, c, updated_at_ms) ==
    [w EXCEPT !.consents = [q \in DOMAIN @ \cup {project_id} |->
        IF q = project_id
        THEN [consented |-> c.consented,
              auto_confirm |-> IF q \in DOMAIN @ THEN @[q].auto_confirm
                               ELSE c.auto_confirm,
              updated_at_ms |-> updated_at_ms]
        ELSE @[q]]]

\* INSERT INTO consents ... ON CONFLICT(project_id) DO UPDATE
PutConsent(w, project_id, c, updated_at_ms) ==
    [w EXCEPT !.consents = [q \in DOMAIN @ \cup {project_id} |->
        IF q = project_id
        THEN [consented |-> c.consented, auto_confirm |-> c.auto_confirm,
              updated_at_ms |-> updated_at_ms]
        ELSE @[q]]]

upsert_consent(w, project_id, req_consented, req_auto_confirm) ==
    IF IsBlankId(project_id) THEN [w |-> w, resp |-> Err("bad_request")]
    ELSE IF ~ProjectExists(w, project_id) THEN [w |-> w, resp |-> Err("not_found")]
    ELSE LET c == merge_consent(StoredConsent(w, project_id), req_consented,
                                req_auto_confirm)
             w1 == PutConsent(w, project_id, c, clock)
         IN [w |-> AddEvent(w1, project_id, clock, "info", "consent_updated"),
             resp |-> [status |-> "ok", project_id |-> project_id,
                       consented |-> c.consented, auto_confirm |-> c.auto_confirm,
                       updated_at_ms |-> clock]]

-----------------------------------------------------------------------------
(* Remote resolver / downloader *)

\* an external tool is started: Command::output()
Invoke(w, tool, mode, ss) ==
    [w EXCEPT !.calls = Append(@, [tool |-> tool, mode |-> mode, ss |-> ss])]

\* what the file names yt-dlp may give a download end with
DownloadExts == {"mp4", "mkv"}

\* pick_downloaded_file: the most recently modified file of out_dir whose name
\* starts with file_base
pick_downloaded_file(w, out_dir, file_base) ==
    LET cands == {q \in DOMAIN w.files :
                    /\ Len(q) = Len(out_dir) + 1
                    /\ SubSeq(q, 1, Len(out_dir)) = out_dir
                    /\ \E e \in DownloadExts : q[Len(q)] = file_base \o "." \o e}
    IN IF cands = {} THEN None
       ELSE Some(CHOOSE q \in cands :
                    \A r \in cands : w.files[r].mtime <= w.files[q].mtime)

consent_gate_open(w, project_id) == TRUE

\* SELECT consented FROM consents ... unwrap_or(false)
consent_gate(w, project_id) == StoredConsent(w, project_id).consented

download_requested_by_default(req_download) == UnwrapOr(req_download, TRUE)

\* req.download.unwrap_or(false)
download_requested(req_download) == UnwrapOr(req_download, FALSE)

\* tool: what yt-dlp does in this call: [info: "fail" | "badjson" | "ok",
\*   extractor, id: Option<text>, dl: "fail" | "nofile" | an extension, size, dur]
import_remote_media(w, project_id, raw_url, req_download, tool) ==
    LET url == Trim(raw_url)
        download == download_requested(req_download)
    IN IF IsBlankId(project_id) THEN [w |-> w, resp |-> Err("bad_request")]
       ELSE IF url = <<>> THEN [w |-> w, resp |-> Err("bad_request")]
       ELSE IF ~(StartsWith(url, "http://") \/ StartsWith(url, "https://"))
       THEN [w |-> w, resp |-> Err("bad_request")]
       ELSE IF ~app.ytdlp THEN [w |-> w, resp |-> Err("precondition_failed")]
       ELSE IF download /\ ~app.ffmpeg THEN [w |-> w, resp |-> Err("precondition_failed")]
       ELSE IF ~ProjectExists(w, project_id) THEN [w |-> w, resp |-> Err("not_found")]
       ELSE IF ~consent_gate(w, project_id)
       THEN [w |-> w, resp |-> Err("precondition_failed")]
       ELSE LET w1 == Invoke(w, "yt-dlp", "info", 0)
            IN IF tool.info # "ok" THEN [w |-> w1, resp |-> Err("internal")]
               ELSE
               LET created_at_ms == clock
                   rel_info_path == <<"projects", project_id, "out", "ytdlp",
                                      "info-" \o ToString(created_at_ms) \o ".json">>
                   w2 == WriteFile(w1, rel_info_path, 1, -1)
                   info == ensure_artifact(w2, project_id, <<"ytdlp_info">>,
                                           rel_info_path, created_at_ms)
                   w3 == AddEvent(info.w, project_id, created_at_ms, "info",
                                  "remote_resolve")
                   extractor == UnwrapOr(tool.extractor, <<"unknown">>)
                   id == UnwrapOr(tool.id, <<"unknown">>)
               IN IF ~download
                  THEN [w |-> w3,
                        resp |-> [status |-> "ok", info_artifact |-> info.art,
                                  input_video |-> None]]
                  ELSE
                  LET out_dir == <<"projects", project_id, "media", "remote">>
                      file_base == sanitize_file_name(extractor) \o "-"
                                       \o sanitize_file_name(id)
                      w4 == Invoke(w3, "yt-dlp", "download", 0)
                      expected == Append(out_dir, file_base \o ".mp4")
                      w5 == IF tool.dl \in DownloadExts
                            THEN WriteFile(w4, Append(out_dir, file_base \o "." \o tool.dl),
                                           tool.size, tool.dur)
                            ELSE w4
                      picked == IF FileExists(w5, expected) THEN Some(expected)
                                ELSE pick_downloaded_file(w5, out_dir, file_base)
                  IN IF tool.dl = "fail" THEN [w |-> w4, resp |-> Err("internal")]
                     ELSE IF picked = None THEN [w |-> w5, resp |-> Err("internal")]
                     ELSE
                     LET video == ensure_artifact(w5, project_id, <<"input_video">>,
                                                  picked[1], created_at_ms)
                     IN [w |-> AddEvent(video.w, project_id, created_at_ms, "info",
                                        "remote_download"),
                         resp |-> [status |-> "ok", info_artifact |-> info.art,
                                   input_video |-> Some(video.art)]]

-----------------------------------------------------------------------------
(* Derivation pipeline *)

\* the clip length, in seconds
clip_len_s == 6

\* a fingerprint that leaves the mtime out
file_fingerprint_size_only(w, path) == ToString(w.files[path].size)

\* "{size}_{mtime_ms}"
file_fingerprint(w, path) ==
    ToString(w.files[path].size) \o "_" \o ToString(w.files[path].mtime)

\* anchors whose middle one is not clamped at 0
ClipOffsetsMidUnclamped(duration_ms) ==
    [start |-> 0,
     mid |-> duration_ms \div 2 - (clip_len_s * 1000) \div 2,
     end |-> IF duration_ms > clip_len_s * 1000
             THEN Max(duration_ms - clip_len_s * 1000, 0) ELSE 0]

\* the three anchors, in milliseconds, for a duration in milliseconds
ClipOffsets(duration_ms) ==
    [start |-> 0,
     mid |-> Max(duration_ms \div 2 - (clip_len_s * 1000) \div 2, 0),
     end |-> IF duration_ms > clip_len_s * 1000
             THEN Max(duration_ms - clip_len_s * 1000, 0) ELSE 0]

OutputNamesClipEndIsMid ==
    <<"metadata.json", "clip_start.mp4", "clip_mid.mp4", "clip_mid.mp4",
      "audio.wav", "thumb_start.jpg", "thumb_mid.jpg", "thumb_end.jpg">>

\* the file names of the eight outputs, in the order the pipeline makes them
OutputNames ==
    <<"metadata.json", "clip_start.mp4", "clip_mid.mp4", "clip_end.mp4",
      "audio.wav", "thumb_start.jpg", "thumb_mid.jpg", "thumb_end.jpg">>

\* the kinds they are registered under, in the order of registration
OutputKinds ==
    <<"metadata_json", "clip_start", "clip_mid", "clip_end",
      "audio_wav", "thumb_start", "thumb_mid", "thumb_end">>

\* the fate of the k-th step of a call, should it be invoked: the tool exits
\* zero and has written its output ("ok"), or exits non-zero and has written
\* nothing ("fail") or a truncated output ("partial")
FateOf(fate, k) == IF fate.at = k THEN fate.how ELSE "ok"

skip_if_exists_never(w, abs) == FALSE

\* if abs.exists() { continue; }
skip_if_exists(w, abs) == FileExists(w, abs)

\* a step that is run although an earlier tool of the call exited non-zero
FfmpegStep_after_failure(st, out, mode, ss, how) ==
    IF skip_if_exists(st.w, out) THEN st
    ELSE LET w1 == Invoke(st.w, "ffmpeg", mode, ss)
         IN CASE how = "ok" -> [w |-> WriteFile(w1, out, 1, -2), failed |-> st.failed]
              [] how = "partial" -> [w |-> WriteFile(w1, out, 0, -2), failed |-> TRUE]
              [] OTHER -> [w |-> w1, failed |-> TRUE]

\* one ffmpeg step: st is [w, failed]
FfmpegStep(st, out, mode, ss, how) ==
    IF st.failed \/ skip_if_exists(st.w, out) THEN st
    ELSE LET w1 == Invoke(st.w, "ffmpeg", mode, ss)
         IN CASE how = "ok" -> [w |-> WriteFile(w1, out, 1, -2), failed |-> FALSE]
              [] how = "partial" -> [w |-> WriteFile(w1, out, 0, -2), failed |-> TRUE]
              [] OTHER -> [w |-> w1, failed |-> TRUE]

\* the ffprobe step: the server writes metadata.json itself, from stdout
ProbeStep(w, out, input_abs, how) ==
    IF skip_if_exists(w, out) THEN [w |-> w, failed |-> FALSE]
    ELSE LET w1 == Invoke(w, "ffprobe", "probe", 0)
         IN IF how = "ok"
            THEN [w |-> WriteFile(w1, out, 1, w.files[input_abs].dur), failed |-> FALSE]
            ELSE [w |-> w1, failed |-> TRUE]

RECURSIVE EnsureAll(_, _, _, _, _)
\* ensure_artifact for the outputs k.., in order; the artifacts come back in arts
EnsureAll(w, project_id, paths, k, arts) ==
    IF k > Len(paths) THEN [w |-> w, arts |-> arts]
    ELSE LET e == ensure_artifact(w, project_id, <<OutputKinds[k]>>, paths[k], clock)
         IN EnsureAll(e.w, project_id, paths, k + 1, Append(arts, e.art))

\* a call that registers what it has produced before it reports a failed tool
pipeline_failed_registers_outputs(w, project_id, rel) ==
    [w |-> IF FileExists(w, rel[1])
           THEN ensure_artifact(w, project_id, <<OutputKinds[1]>>, rel[1], clock).w
           ELSE w,
     resp |-> Err("internal")]

\* bail!("ffprobe failed: ...") and run_cmd(&mut cmd)?: the call ends there, with
\* the files on disk as they are
pipeline_failed(w, project_id, rel) == [w |-> w, resp |-> Err("internal")]

ffmpeg_pipeline(w, project_id, artifact_id, fate) ==
    IF IsBlankId(project_id) THEN [w |-> w, resp |-> Err("bad_request")]
    ELSE IF IsBlankId(artifact_id) THEN [w |-> w, resp |-> Err("bad_request")]
    ELSE IF ~app.ffmpeg \/ ~app.ffprobe THEN [w |-> w, resp |-> Err("precondition_failed")]
    ELSE IF ~ProjectExists(w, project_id) THEN [w |-> w, resp |-> Err("not_found")]
    ELSE
    LET rows == {i \in 1..Len(w.artifacts) :
                    w.artifacts[i].id = artifact_id
                    /\ w.artifacts[i].project_id = project_id}
    IN IF rows = {} THEN [w |-> w, resp |-> Err("internal")]
       ELSE
       LET row == w.artifacts[MinOf(rows)]
           input_abs == row.path
       IN IF row.kind # <<"input_video">> THEN [w |-> w, resp |-> Err("internal")]
          ELSE IF ~FileExists(w, input_abs) THEN [w |-> w, resp |-> Err("internal")]
          ELSE
          LET fingerprint == file_fingerprint(w, input_abs)
              out_dir_rel == <<"projects", project_id, "out", "ffmpeg", fingerprint>>
              rel == [k \in 1..8 |-> Append(out_dir_rel, OutputNames[k])]
              s1 == ProbeStep(w, rel[1], input_abs, FateOf(fate, 1))
          IN IF s1.failed THEN pipeline_failed(s1.w, project_id, rel)
             ELSE IF s1.w.files[rel[1]].dur = -2
             THEN [w |-> s1.w, resp |-> Err("internal")]
             ELSE
             LET duration_ms == Max(s1.w.files[rel[1]].dur, 0)
                 at == ClipOffsets(duration_ms)
                 s2 == FfmpegStep(s1, rel[2], "clip", at.start, FateOf(fate, 2))
                 s3 == FfmpegStep(s2, rel[3], "clip", at.mid, FateOf(fate, 3))
                 s4 == FfmpegStep(s3, rel[4], "clip", at.end, FateOf(fate, 4))
                 s5 == FfmpegStep(s4, rel[5], "audio", 0, FateOf(fate, 5))
                 s6 == FfmpegStep(s5, rel[6], "thumb", at.start, FateOf(fate, 6))
                 s7 == FfmpegStep(s6, rel[7], "thumb", at.mid, FateOf(fate, 7))
                 s8 == FfmpegStep(s7, rel[8], "thumb", at.end, FateOf(fate, 8))
             IN IF s8.failed THEN pipeline_failed(s8.w, project_id, rel)
                ELSE
                LET reg == EnsureAll(s8.w, project_id, rel, 1, <<>>)
                IN [w |-> AddEvent(reg.w, project_id, clock, "info", "ffmpeg_pipeline"),
                    resp |-> [status |-> "ok",
                              input_video_artifact_id |-> artifact_id,
                              fingerprint |-> fingerprint,
                              metadata |-> reg.arts[1],
                              clips |-> SubSeq(reg.arts, 2, 4),
                              audio |-> reg.arts[5],
                              thumbnails |-> SubSeq(reg.arts, 6, 8)]]

-----------------------------------------------------------------------------
(* Pool items *)

\* str::to_lowercase, atom by atom
Lower(a) ==
    CASE a = "A.com" -> "a.com"
      [] a = "B.com" -> "b.com"
      [] a = "X" -> "x"
      [] a = "HTTP://" -> "http://"
      [] OTHER -> a

\* url.split('#').next(): what precedes the first '#'
RECURSIVE BeforeHash(_)
BeforeHash(s) ==
    IF s = <<>> \/ Head(s) = "#" THEN <<>> ELSE <<Head(s)>> \o BeforeHash(Tail(s))

\* str::trim_end_matches('/')
RECURSIVE TrimEndSlashes(_)
TrimEndSlashes(s) ==
    IF s # <<>> /\ s[Len(s)] = "/" THEN TrimEndSlashes(SubSeq(s, 1, Len(s) - 1)) ELSE s

normalize_url_keeps_fragment(url) ==
    LET no_trailing == TrimEndSlashes(Trim(url))
    IN [i \in 1..Len(no_trailing) |-> Lower(no_trailing[i])]

normalize_url_for_dedup(url) ==
    LET no_trailing == TrimEndSlashes(BeforeHash(Trim(url)))
    IN [i \in 1..Len(no_trailing) |-> Lower(no_trailing[i])]

\* Option<String>.map(trim).filter(not empty)
TrimmedOpt(opt) ==
    IF opt = None \/ Trim(opt[1]) = <<>> THEN None ELSE Some(Trim(opt[1]))

\* the rowids of the pool rows of a project with a dedup_key
PoolHits(w, project_id, dedup_key) ==
    {i \in 1..Len(w.pool_items) :
        w.pool_items[i].project_id = project_id
        /\ w.pool_items[i].dedup_key = dedup_key}

upsert_pool_row_keeps_old(w, row) ==
    IF PoolHits(w, row.project_id, row.dedup_key) = {}
    THEN [w EXCEPT !.pool_items = Append(@, row)]
    ELSE w

upsert_pool_row_appends(w, row) == [w EXCEPT !.pool_items = Append(@, row)]

\* a conflicting insert that overwrites the whole row (INSERT OR REPLACE)
upsert_pool_row_replaces_row(w, row) ==
    LET hits == PoolHits(w, row.project_id, row.dedup_key)
    IN IF hits = {}
       THEN [w EXCEPT !.pool_items = Append(@, row)]
       ELSE [w EXCEPT !.pool_items[MinOf(hits)] = row]

\* INSERT INTO pool_items ... ON CONFLICT(project_id, dedup_key) DO UPDATE SET
\* kind, title, source_url, license, data_json, selected
upsert_pool_row(w, row) ==
    LET hits == PoolHits(w, row.project_id, row.dedup_key)
    IN IF hits = {}
       THEN [w EXCEPT !.pool_items = Append(@, row)]
       ELSE [w EXCEPT !.pool_items[MinOf(hits)] =
                [@ EXCEPT !.kind = row.kind, !.title = row.title,
                          !.source_url = row.source_url, !.license = row.license,
                          !.data_json = row.data_json, !.selected = row.selected]]

\* r: [kind, title, url, source_url, license, dedup_key, data, selected], the
\* last six Options
add_pool_item(w, project_id, r) ==
    LET kind == Trim(r.kind)
        title == TrimmedOpt(r.title)
        source_url == TrimmedOpt(IF r.source_url # None THEN r.source_url ELSE r.url)
        license == TrimmedOpt(r.license)
        explicit == TrimmedOpt(r.dedup_key)
        random == explicit = None /\ source_url = None
        dedup_key == IF explicit # None THEN explicit[1]
                     ELSE IF source_url # None
                     THEN <<"url:">> \o normalize_url_for_dedup(source_url[1])
                     ELSE <<"random:", Uuid(w.uuid + 1)>>
        data_json == IF r.data # None THEN r.data
                     ELSE IF source_url # None
                     THEN Some(<<"{\"url\":">> \o source_url[1] \o <<"}">>)
                     ELSE None
        selected == UnwrapOr(r.selected, TRUE)
    IN IF IsBlankId(project_id) THEN [w |-> w, resp |-> Err("bad_request")]
       ELSE IF kind = <<>> THEN [w |-> w, resp |-> Err("bad_request")]
       ELSE
       LET w0 == IF random THEN [w EXCEPT !.uuid = @ + 1] ELSE w
       IN IF ~ProjectExists(w0, project_id) THEN [w |-> w0, resp |-> Err("not_found")]
          ELSE
          LET row == [id |-> Uuid(w0.uuid + 1), project_id |-> project_id,
                      kind |-> kind, title |-> title, source_url |-> source_url,
                      license |-> license, dedup_key |-> dedup_key,
                      data_json |-> data_json, selected |-> selected,
                      created_at_ms |-> clock]
              w1 == upsert_pool_row([w0 EXCEPT !.uuid = @ + 1], row)
              w2 == AddEvent(w1, project_id, clock, "info", "pool_item_upsert")
              back == PoolHits(w2, project_id, dedup_key)
          IN IF back = {} THEN [w |-> w2, resp |-> Err("internal")]
             ELSE [w |-> w2,
                   resp |-> [status |-> "ok", item |-> w2.pool_items[MinOf(back)]]]

\* an UPDATE without the id in its WHERE clause
set_pool_item_selected_by_project(w, project_id, item_id, selected) ==
    IF IsBlankId(project_id) THEN [w |-> w, resp |-> Err("bad_request")]
    ELSE IF IsBlankId(item_id) THEN [w |-> w, resp |-> Err("bad_request")]
    ELSE IF ~ProjectExists(w, project_id) THEN [w |-> w, resp |-> Err("not_found")]
    ELSE
    LET match(i) == w.pool_items[i].project_id = project_id
                    /\ w.pool_items[i].id = item_id
        w1 == [w EXCEPT !.pool_items = [i \in 1..Len(@) |->
                  IF @[i].project_id = project_id
                  THEN [@[i] EXCEPT !.selected = selected] ELSE @[i]]]
        w2 == AddEvent(w1, project_id, clock, "info", "pool_item_selected")
        back == {i \in 1..Len(w2.pool_items) : match(i)}
    IN IF back = {} THEN [w |-> w2, resp |-> Err("not_found")]
       ELSE [w |-> w2, resp |-> [status |-> "ok", item |-> w2.pool_items[MinOf(back)]]]

set_pool_item_selected(w, project_id, item_id, selected) ==
    IF IsBlankId(project_id) THEN [w |-> w, resp |-> Err("bad_request")]
    ELSE IF IsBlankId(item_id) THEN [w |-> w, resp |-> Err("bad_request")]
    ELSE IF ~ProjectExists(w, project_id) THEN [w |-> w, resp |-> Err("not_found")]
    ELSE
    LET match(i) == w.pool_items[i].project_id = project_id
                    /\ w.pool_items[i].id = item_id
        w1 == [w EXCEPT !.pool_items = [i \in 1..Len(@) |->
                  IF match(i) THEN [@[i] EXCEPT !.selected = selected] ELSE @[i]]]
        w2 == AddEvent(w1, project_id, clock, "info", "pool_item_selected")
        back == {i \in 1..Len(w2.pool_items) : match(i)}
    IN IF back = {} THEN [w |-> w2, resp |-> Err("not_found")]
       ELSE [w |-> w2, resp |-> [status |-> "ok", item |-> w2.pool_items[MinOf(back)]]]

\* the dedup_key import_manifest gives an item: its "dedup_key", else its
\* "source_url", else the literal "random"
manifest_dedup_key(it) ==
    IF it.dedup_key # None THEN it.dedup_key[1]
    ELSE IF it.source_url # None THEN it.source_url[1]
    ELSE <<"random">>

\* the restore loop of import_manifest: one upsert per item, each with a fresh
\* id and the creation time of the project
RECURSIVE restore_pool_items(_, _, _, _)
restore_pool_items(w, project_id, items, created_at_ms) ==
    IF items = <<>> THEN w
    ELSE LET it == Head(items)
             row == [id |-> Uuid(w.uuid + 1), project_id |-> project_id,
                     kind |-> UnwrapOr(it.kind, <<"link">>), title |-> it.title,
                     source_url |-> it.source_url, license |-> it.license,
                     dedup_key |-> manifest_dedup_key(it),
                     data_json |-> it.data_json,
                     selected |-> UnwrapOr(it.selected, TRUE),
                     created_at_ms |-> created_at_ms]
         IN restore_pool_items(upsert_pool_row([w EXCEPT !.uuid = @ + 1], row),
                               project_id, Tail(items), created_at_ms)

\* items: the "pool_items" array of the manifest, each field an Option
import_manifest(w, items) ==
    LET project_id == Uuid(w.uuid + 1)
        created_at_ms == clock
        w1 == [w EXCEPT !.projects = @ \cup {project_id}, !.uuid = @ + 1]
        w2 == restore_pool_items(w1, project_id, items, created_at_ms)
    IN [w |-> AddEvent(w2, project_id, created_at_ms, "info",
                       "project_imported_manifest"),
        resp |-> [status |-> "ok", id |-> project_id, created_at_ms |-> created_at_ms]]

-----------------------------------------------------------------------------
(* Report generation *)

RowsOf(rows, project_id) ==
    {i \in 1..Len(rows) : rows[i].project_id = project_id}

\* the length of manifest.json: it lists the project's artifacts and pool items
ManifestBytes(w, project_id) ==
    2 + Cardinality(RowsOf(w.artifacts, project_id))
      + Cardinality(RowsOf(w.pool_items, project_id))

\* the length of report.html: it lists the project's pool items
ReportBytes(w, project_id) == 3 + Cardinality(RowsOf(w.pool_items, project_id))

ExportDir(project_id) == <<"projects", project_id, "out", "export">>

generate_report(w, project_id) ==
    IF IsBlankId(project_id) THEN [w |-> w, resp |-> Err("bad_request")]
    ELSE IF ~ProjectExists(w, project_id) THEN [w |-> w, resp |-> Err("not_found")]
    ELSE LET generated_at_ms == clock
             manifest_rel == Append(ExportDir(project_id), "manifest.json")
             report_rel == Append(ExportDir(project_id), "report.html")
             w1 == WriteFile(w, manifest_rel, ManifestBytes(w, project_id), -1)
             w2 == WriteFile(w1, report_rel, ReportBytes(w, project_id), -2)
             report_art == ensure_artifact(w2, project_id, <<"report_html">>,
                                           report_rel, generated_at_ms)
             manifest_art == ensure_artifact(report_art.w, project_id,
                                             <<"manifest_json">>, manifest_rel,
                                             generated_at_ms)
         IN [w |-> AddEvent(manifest_art.w, project_id, generated_at_ms, "info",
                            "report_generated"),
             resp |-> [status |-> "ok", report_html |-> report_art.art,
                       manifest_json |-> manifest_art.art]]

-----------------------------------------------------------------------------
(* Profile memory *)

\* ProfileMemory::default(); prompt and last_session_summary are kept as their
\* lengths in characters
DefaultProfile ==
    [version |-> 1, updated_at_ms |-> 0, exports_seen |-> 0, kind_counts |-> <<>>,
     source_domain_counts |-> <<>>, prompt |-> 0, last_session_summary |-> 0]

\* the length of truncate_with_ellipsis(s, max_chars), for s of chars characters
truncate_with_ellipsis(chars, max_chars) ==
    IF max_chars = 0 THEN 0
    ELSE IF chars > max_chars THEN max_chars + 1
    ELSE chars

\* the atoms that hold "://"
SchemeAtoms == {"http://", "https://", "ftp://", "HTTP://"}

\* s.split(sep).next(), for a separator that is one of the atoms seps
RECURSIVE Before(_, _)
Before(s, seps) ==
    IF s = <<>> \/ Head(s) \in seps THEN <<>> ELSE <<Head(s)>> \o Before(Tail(s), seps)

\* what follows the first separator of s, <<>> without one
RECURSIVE After(_, _)
After(s, seps) ==
    IF s = <<>> THEN <<>>
    ELSE IF Head(s) \in seps THEN Tail(s)
    ELSE After(Tail(s), seps)

\* s.split(sep).last()
RECURSIVE AfterLast(_, _)
AfterLast(s, seps) ==
    IF \E i \in 1..Len(s) : s[i] \in seps THEN AfterLast(After(s, seps), seps) ELSE s

url_domain(url) ==
    LET trimmed == Trim(url)
        without_scheme == IF \E i \in 1..Len(trimmed) : trimmed[i] \in SchemeAtoms
                          THEN Before(After(trimmed, SchemeAtoms), SchemeAtoms)
                          ELSE trimmed
        host_port == AfterLast(Before(without_scheme, {"/"}), {"@"})
        host == Trim(Before(host_port, {":"}))
    IN IF trimmed = <<>> \/ host = <<>> THEN None
       ELSE Some(Join([i \in 1..Len(host) |-> Lower(host[i])]))

\* the character c, n times
RECURSIVE Repeat(_, _)
Repeat(c, n) ==
    IF n = 0 THEN ""
    ELSE IF n % 2 = 0 THEN LET half == Repeat(c, n \div 2) IN half \o half
    ELSE c \o Repeat(c, n - 1)

\* a pool kind of MaxKindLen characters: the request body bounds no field
LongKind == Repeat("x", MaxKindLen)

\* the keys of the frequency tables, in the order of String::cmp
KeyOrder ==
    <<"a.com", "b.com", "c.com", "d.com", "e.com", "f.com", "g.com",
      "image", "link", "note", "quote", "sound", "text", "video", LongKind>>

KeyRank(k) == CHOOSE i \in 1..Len(KeyOrder) : KeyOrder[i] = k

\* the comparator of out.sort_by: count descending, then key ascending
CountBefore(a, b) ==
    a.count > b.count \/ (a.count = b.count /\ KeyRank(a.key) < KeyRank(b.key))

RECURSIVE SortCounts(_)
SortCounts(S) ==
    IF S = {} THEN <<>>
    ELSE LET first == CHOOSE a \in S : \A b \in S \ {a} : CountBefore(a, b)
         IN <<first>> \o SortCounts(S \ {first})

RECURSIVE SumCounts(_, _)
SumCounts(adds, key) ==
    IF adds = <<>> THEN 0
    ELSE (IF Head(adds).key = key THEN Head(adds).count ELSE 0)
         + SumCounts(Tail(adds), key)

\* key.trim().is_empty(), for the keys a table can be offered
IsBlankKey(k) == k = "" \/ k = " "

Min(a, b) == IF a <= b THEN a ELSE b

merge_top_counts_unsorted(existing, adds, limit) ==
    LET out == existing \o adds
    IN SubSeq(out, 1, Min(limit, Len(out)))

merge_top_counts_untruncated(existing, adds, limit) ==
    LET keys == {existing[i].key : i \in 1..Len(existing)}
                \cup {adds[i].key : i \in {j \in 1..Len(adds) : ~IsBlankKey(adds[j].key)}}
        old(k) == IF \E i \in 1..Len(existing) : existing[i].key = k
                  THEN (CHOOSE e \in {existing[i] : i \in 1..Len(existing)} : e.key = k).count
                  ELSE 0
    IN SortCounts({[key |-> k, count |-> old(k) + SumCounts(adds, k)] : k \in keys})

merge_top_counts(existing, adds, limit) ==
    LET keys == {existing[i].key : i \in 1..Len(existing)}
                \cup {adds[i].key : i \in {j \in 1..Len(adds) : ~IsBlankKey(adds[j].key)}}
        old(k) == IF \E i \in 1..Len(existing) : existing[i].key = k
                  THEN (CHOOSE e \in {existing[i] : i \in 1..Len(existing)} : e.key = k).count
                  ELSE 0
        out == SortCounts({[key |-> k, count |-> old(k) + SumCounts(adds, k)] : k \in keys})
    IN SubSeq(out, 1, Min(limit, Len(out)))

\* "key(count)" joined with ", "
RECURSIVE CountsText(_)
CountsText(tbl) ==
    IF tbl = <<>> THEN ""
    ELSE Head(tbl).key \o "(" \o ToString(Head(tbl).count) \o ")"
         \o (IF Len(tbl) > 1 THEN ", " ELSE "") \o CountsText(Tail(tbl))

\* the length of build_profile_prompt(p)
build_profile_prompt(p) ==
    LET kinds == IF p.kind_counts = <<>> THEN <<>>
                 ELSE <<Len("Common selected asset kinds: " \o CountsText(p.kind_counts))>>
        sources == IF p.source_domain_counts = <<>> THEN <<>>
                   ELSE <<Len("Common input source domains: "
                              \o CountsText(p.source_domain_counts))>>
        last == IF p.last_session_summary = 0 THEN <<>>
                ELSE <<Len("Last export summary: ") + p.last_session_summary>>
        lines == kinds \o sources \o last
        chars == IF lines = <<>> THEN 0
                 ELSE (Len(lines) - 1)
                      + (IF kinds = <<>> THEN 0 ELSE kinds[1])
                      + (IF sources = <<>> THEN 0 ELSE sources[1])
                      + (IF last = <<>> THEN 0 ELSE last[1])
    IN truncate_with_ellipsis(chars, 800)

\* SELECT summary FROM profile WHERE id = 1, parsed
load_profile(w) == IF w.profile = <<>> THEN DefaultProfile ELSE w.profile[1]

\* the upsert of the row with id = 1 and the mirror file profile.json
save_profile(w, p) ==
    WriteFile([w EXCEPT !.profile = <<p>>], <<"profile.json">>, 1 + p.prompt, -1)


reset_profile(w) ==
    [w |-> [w EXCEPT !.profile = <<>>,
                     !.files = [q \in DOMAIN @ \ {<<"profile.json">>} |-> @[q]]],
     resp |-> [status |-> "ok", profile |-> DefaultProfile]]

\* ... ORDER BY created_at_ms DESC LIMIT 1: the path of the newest artifact of a
\* kind; rows with equal created_at_ms come back in rowid order
LatestArtifactPath(w, project_id, kind) ==
    LET rows == {i \in RowsOf(w.artifacts, project_id) : w.artifacts[i].kind = kind}
        newest == {i \in rows :
                      \A j \in rows : w.artifacts[j].created_at_ms
                                        <= w.artifacts[i].created_at_ms}
    IN IF rows = {} THEN None ELSE Some(w.artifacts[MinOf(newest)].path)

SelectedItems(w, project_id) ==
    {i \in RowsOf(w.pool_items, project_id) : w.pool_items[i].selected}

\* SELECT kind, COUNT(*) ... WHERE selected = 1 GROUP BY kind ORDER BY kind ASC
SelectedKindCounts(w, project_id) ==
    LET kinds == {Join(w.pool_items[i].kind) : i \in SelectedItems(w, project_id)}
        n(k) == Cardinality({i \in SelectedItems(w, project_id) :
                                Join(w.pool_items[i].kind) = k})
        RECURSIVE ByKey(_)
        ByKey(S) == IF S = {} THEN <<>>
                    ELSE LET k == CHOOSE a \in S : \A b \in S : KeyRank(a) <= KeyRank(b)
                         IN <<[key |-> k, count |-> n(k)]>> \o ByKey(S \ {k})
    IN ByKey(kinds)

BoolText(b) == IF b THEN "true" ELSE "false"

\* the statements of update_profile_after_export that can fail, in order: the
\* two SELECTs, the write of the summary file, ensure_artifact, the
\* session_summary_generated event, load_profile, the upsert and the file write
\* of save_profile, the profile_updated event
ProfileUpdateSteps == 1..9

\* flags: the six include flags, defaults applied.  fail_at: 0, or the step of
\* ProfileUpdateSteps that returns Err: the "?" leaves what the earlier steps
\* did.  The result is the store and whether the update returned Ok.
update_profile_after_export_steps(w, project_id, ts, flags, fail_at) ==
    LET kind_counts == SelectedKindCounts(w, project_id)
        latest_url == LatestArtifactPath(w, project_id, <<"input_url">>)
        input_source_domain == IF latest_url = None THEN None
                               ELSE url_domain(latest_url[1])
        text == "Exported; "
                \o (IF input_source_domain = None THEN ""
                    ELSE "source=" \o input_source_domain[1] \o "; ")
                \o (IF kind_counts = <<>> THEN ""
                    ELSE "selected=" \o CountsText(kind_counts) \o "; ")
                \o "include_original_video=" \o BoolText(flags.include_original_video)
                \o "; include_report=" \o BoolText(flags.include_report)
                \o "; include_manifest=" \o BoolText(flags.include_manifest)
                \o "; include_clips=" \o BoolText(flags.include_clips)
                \o "; include_audio=" \o BoolText(flags.include_audio)
                \o "; include_thumbnails=" \o BoolText(flags.include_thumbnails)
        session_summary == truncate_with_ellipsis(Len(text), 400)
        rel == <<"projects", project_id, "analysis",
                 "session_summary-" \o ToString(ts) \o ".txt">>
        w1 == WriteFile(w, rel, session_summary + 1, -2)
        art == ensure_artifact(w1, project_id, <<"session_summary">>, rel, ts)
        w2 == AddEvent(art.w, project_id, ts, "info", "session_summary_generated")
        loaded == load_profile(w2)
        p1 == [loaded EXCEPT !.exports_seen = @ + 1, !.updated_at_ms = ts,
                             !.last_session_summary = session_summary,
                             !.kind_counts = merge_top_counts(@, kind_counts, 5)]
        p2 == IF input_source_domain = None THEN p1
              ELSE [p1 EXCEPT !.source_domain_counts =
                       merge_top_counts(@, <<[key |-> input_source_domain[1],
                                              count |-> 1]>>, 5)]
        p3 == [p2 EXCEPT !.prompt = build_profile_prompt(p2)]
        done == AddEvent(save_profile(w2, p3), project_id, ts, "info", "profile_updated")
    IN CASE fail_at \in {1, 2, 3} -> [w |-> w, ok |-> FALSE]
         [] fail_at = 4 -> [w |-> w1, ok |-> FALSE]
         [] fail_at = 5 -> [w |-> art.w, ok |-> FALSE]
         [] fail_at \in {6, 7} -> [w |-> w2, ok |-> FALSE]
         [] fail_at = 8 -> [w |-> [w2 EXCEPT !.profile = <<p3>>], ok |-> FALSE]
         [] fail_at = 9 -> [w |-> save_profile(w2, p3), ok |-> FALSE]
         [] OTHER -> [w |-> done, ok |-> TRUE]

update_profile_after_export(w, project_id, ts, flags) ==
    update_profile_after_export_steps(w, project_id, ts, flags, 0).w

-----------------------------------------------------------------------------
(* Export: the estimate and the archive *)

\* ExportZipRequest with unwrap_or applied: r holds six Option<bool>
ExportFlags(r) ==
    [include_original_video |-> UnwrapOr(r.include_original_video, TRUE),
     include_report |-> UnwrapOr(r.include_report, TRUE),
     include_manifest |-> UnwrapOr(r.include_manifest, TRUE),
     include_clips |-> UnwrapOr(r.include_clips, FALSE),
     include_audio |-> UnwrapOr(r.include_audio, FALSE),
     include_thumbnails |-> UnwrapOr(r.include_thumbnails, FALSE)]

\* the length of the selected_pool.json snapshot: a skeleton (with a timestamp
\* of constant width) and the selected items
SelectedPoolBytes(w, project_id) == 10 + Cardinality(SelectedItems(w, project_id))

RECURSIVE SumBytes(_)
SumBytes(entries) ==
    IF entries = <<>> THEN 0 ELSE Head(entries).bytes + SumBytes(Tail(entries))

\* the paths the export queries, in archive order, each with its entry-name
\* prefix ("" for a fixed name) and its fixed name
ExportQueries(w, project_id, flags) ==
    LET q(flag, kind, dir, name) ==
            IF flag /\ LatestArtifactPath(w, project_id, <<kind>>) # None
            THEN <<[path |-> LatestArtifactPath(w, project_id, <<kind>>)[1],
                    dir |-> dir, name |-> name]>>
            ELSE <<>>
    IN [report |-> q(flags.include_report, "report_html", "", "report.html"),
        manifest |-> q(flags.include_manifest, "manifest_json", "", "manifest.json"),
        rest |-> q(flags.include_original_video, "input_video", "input_video", "")
                 \o q(flags.include_clips, "clip_start", "clips", "")
                 \o q(flags.include_clips, "clip_mid", "clips", "")
                 \o q(flags.include_clips, "clip_end", "clips", "")
                 \o q(flags.include_audio, "audio_wav", "audio", "")
                 \o q(flags.include_thumbnails, "thumb_start", "thumbnails", "")
                 \o q(flags.include_thumbnails, "thumb_mid", "thumbnails", "")
                 \o q(flags.include_thumbnails, "thumb_end", "thumbnails", "")]

EntryName(query) ==
    IF query.dir = "" THEN query.name
    ELSE query.dir \o "/" \o query.path[Len(query.path)]

\* if abs.exists() { push(name, metadata(abs).len()) }, for each query in turn
RECURSIVE EntriesOf(_, _)
EntriesOf(w, queries) ==
    IF queries = <<>> THEN <<>>
    ELSE (IF FileExists(w, Head(queries).path)
          THEN <<[name |-> EntryName(Head(queries)),
                  bytes |-> w.files[Head(queries).path].size]>>
          ELSE <<>>)
         \o EntriesOf(w, Tail(queries))

estimate_export_zip(w, project_id, r) ==
    IF IsBlankId(project_id) THEN [w |-> w, resp |-> Err("bad_request")]
    ELSE IF ~ProjectExists(w, project_id) THEN [w |-> w, resp |-> Err("not_found")]
    ELSE LET queries == ExportQueries(w, project_id, ExportFlags(r))
             files_ == EntriesOf(w, queries.report \o queries.manifest)
                       \o <<[name |-> "selected_pool.json",
                             bytes |-> SelectedPoolBytes(w, project_id)]>>
                       \o EntriesOf(w, queries.rest)
         IN [w |-> w,
             resp |-> [status |-> "ok", total_bytes |-> SumBytes(files_),
                       files |-> files_]]


\* zip.start_file refuses a name the archive already holds
HasDuplicateName(entries) ==
    \E i, j \in 1..Len(entries) : i < j /\ entries[i].name = entries[j].name

\* no statement fails
NoFault == [at |-> 0, warn_lost |-> FALSE]

profile_failure_fails_export(w, project_id, ts, fault, ok_resp) ==
    [w |-> w, resp |-> Err("internal")]

\* if let Err(err) = update_profile_after_export(..) { let _ = INSERT 'warn'
\* event }: the result of that INSERT is dropped, so the event is lost when the
\* statement fails too
profile_failure_is_warned(w, project_id, ts, fault, ok_resp) ==
    [w |-> IF fault.warn_lost THEN w
           ELSE AddEvent(w, project_id, ts, "warn", "profile_update_failed"),
     resp |-> ok_resp]

\* fault: [at: 0 or the step of update_profile_after_export that fails,
\* warn_lost: whether the INSERT of the warn event fails]
export_zip_under(w, project_id, r, fault) ==
    IF IsBlankId(project_id) THEN [w |-> w, resp |-> Err("bad_request")]
    ELSE IF ~ProjectExists(w, project_id) THEN [w |-> w, resp |-> Err("not_found")]
    ELSE
    LET flags == ExportFlags(r)
        queries == ExportQueries(w, project_id, flags)
        selected_pool_rel == Append(ExportDir(project_id), "selected_pool.json")
        w1 == WriteFile(w, selected_pool_rel, SelectedPoolBytes(w, project_id), -1)
        ts == clock
        zip_name == "vidunpack-export-" \o project_id \o "-" \o ToString(ts) \o ".zip"
        zip_rel == Append(ExportDir(project_id), zip_name)
        w2 == WriteFile(w1, zip_rel, 0, -2)
        entries == EntriesOf(w2, queries.report \o queries.manifest)
                   \o <<[name |-> "selected_pool.json",
                         bytes |-> w2.files[selected_pool_rel].size]>>
                   \o EntriesOf(w2, queries.rest)
        total_bytes == SumBytes(entries)
    IN IF HasDuplicateName(entries) THEN [w |-> w2, resp |-> Err("internal")]
       ELSE
       LET w3 == WriteFile(w2, zip_rel, 1 + total_bytes, -2)
           zip_art == ensure_artifact(w3, project_id, <<"export_zip">>, zip_rel, ts)
           w4 == AddEvent(zip_art.w, project_id, ts, "info", "export_zip")
           updated == update_profile_after_export_steps(w4, project_id, ts, flags,
                                                        fault.at)
           ok_resp == [status |-> "ok", zip |-> zip_art.art,
                       total_bytes |-> total_bytes, entries |-> entries,
                       download_url |-> <<"projects", project_id, "exports",
                                          "download", zip_name>>]
       IN IF updated.ok THEN [w |-> updated.w, resp |-> ok_resp]
          ELSE profile_failure_is_warned(updated.w, project_id, ts, fault, ok_resp)

export_zip(w, project_id, r) == export_zip_under(w, project_id, r, NoFault)

-----------------------------------------------------------------------------
(* The server as a state machine *)

NoRequest == [op |-> "none"]
NoResponse == [status |-> "none"]

\* a fresh data directory and database, and the tools found on PATH at startup
InitStore ==
    /\ projects = {}
    /\ artifacts = <<>>
    /\ pool_items = <<>>
    /\ consents = <<>>
    /\ events = <<>>
    /\ files = <<>>
    /\ uuid = 0
    /\ clock = 0
    /\ calls = <<>>
    /\ req = NoRequest
    /\ resp = NoResponse

Init ==
    /\ InitStore
    /\ profile = <<>>
    /\ pc = <<>>
    /\ loc = <<>>
    /\ app \in {[ffmpeg |-> TRUE, ffprobe |-> TRUE, ytdlp |-> TRUE]}

\* a request runs to completion: the store it leaves and its response
Step(r, out) ==
    /\ Commit(out.w)
    /\ req' = r
    /\ resp' = out.resp
    /\ UNCHANGED <<app, clock, pc, loc>>

\* requests are served while the tables are within the bounds of the model
Budget(max_events) == Len(events) < max_events /\ uuid < MaxUuid

\* the project ids a request path can carry: those that exist, a blank one and
\* one that does not exist
PidInputs == projects \cup {" ", "zz"}

\* the ids of the projects that exist
Pids == projects

Tick ==
    /\ clock < MaxClock
    /\ clock' = clock + 1
    /\ UNCHANGED <<app, projects, artifacts, pool_items, consents, events, profile,
                   files, uuid, calls, req, resp, pc, loc>>

\* the environment deletes a file under the data directory (the server itself
\* deletes no artifact file; the handlers test Path::exists for this case)
RemoveFile(path) ==
    /\ path \in DOMAIN files
    /\ Step([op |-> "remove_file", path |-> path, at |-> clock],
            [w |-> [World EXCEPT !.files = [q \in DOMAIN @ \ {path} |-> @[q]]],
             resp |-> NoResponse])

CreateProject(max_events) ==
    /\ Budget(max_events)
    /\ Cardinality(projects) < MaxProjects
    /\ Step([op |-> "create_project", at |-> clock], create_project(World))

AddInputUrl(max_events, project_id, url) ==
    /\ Budget(max_events)
    /\ Step([op |-> "add_input_url", project_id |-> project_id, url |-> url,
             at |-> clock],
            add_input_url(World, project_id, url))

ImportLocalVideo(max_events, project_id, upload) ==
    /\ Budget(max_events)
    /\ Step([op |-> "import_local_video", project_id |-> project_id,
             upload |-> upload, at |-> clock],
            import_local_video(World, project_id, upload))

UploadFileArtifact(max_events, project_id, upload) ==
    /\ Budget(max_events)
    /\ Step([op |-> "upload_file_artifact", project_id |-> project_id,
             upload |-> upload, at |-> clock],
            upload_file_artifact(World, project_id, upload))

CreateTextArtifact(max_events, project_id, kind, out_path, content) ==
    /\ Budget(max_events)
    /\ Step([op |-> "create_text_artifact", project_id |-> project_id,
             kind |-> kind, out_path |-> out_path, content |-> content,
             at |-> clock],
            create_text_artifact(World, project_id, kind, out_path, content))

UpsertConsent(max_events, project_id, consented, auto_confirm) ==
    /\ Budget(max_events)
    /\ Step([op |-> "upsert_consent", project_id |-> project_id,
             consented |-> consented, auto_confirm |-> auto_confirm, at |-> clock],
            upsert_consent(World, project_id, consented, auto_confirm))

ImportRemoteMedia(max_events, project_id, url, download, tool) ==
    /\ Budget(max_events)
    /\ Step([op |-> "import_remote_media", project_id |-> project_id, url |-> url,
             download |-> download, tool |-> tool, at |-> clock],
            import_remote_media(World, project_id, url, download, tool))

FfmpegPipeline(max_events, project_id, artifact_id, fate) ==
    /\ Budget(max_events)
    /\ Step([op |-> "ffmpeg_pipeline", project_id |-> project_id,
             artifact_id |-> artifact_id, fate |-> fate, at |-> clock],
            ffmpeg_pipeline(World, project_id, artifact_id, fate))

GenerateReport(max_events, project_id) ==
    /\ Budget(max_events)
    /\ Step([op |-> "generate_report", project_id |-> project_id, at |-> clock],
            generate_report(World, project_id))

AddPoolItem(max_events, project_id, r) ==
    /\ Budget(max_events)
    /\ Step([op |-> "add_pool_item", project_id |-> project_id, body |-> r,
             at |-> clock],
            add_pool_item(World, project_id, r))

SetPoolItemSelected(max_events, project_id, item_id, selected) ==
    /\ Budget(max_events)
    /\ Step([op |-> "set_pool_item_selected", project_id |-> project_id,
             item_id |-> item_id, selected |-> selected, at |-> clock],
            set_pool_item_selected(World, project_id, item_id, selected))

EstimateExportZip(max_events, project_id, r) ==
    /\ Budget(max_events)
    /\ Step([op |-> "estimate_export_zip", project_id |-> project_id, body |-> r,
             at |-> clock],
            estimate_export_zip(World, project_id, r))

ExportZip(max_events, project_id, r) ==
    /\ Budget(max_events)
    /\ Step([op |-> "export_zip", project_id |-> project_id, body |-> r,
             at |-> clock],
            export_zip(World, project_id, r))

ExportZipUnder(max_events, project_id, r, fault) ==
    /\ Budget(max_events)
    /\ Step([op |-> "export_zip", project_id |-> project_id, body |-> r,
             fault |-> fault, at |-> clock],
            export_zip_under(World, project_id, r, fault))

ImportManifest(max_events, items) ==
    /\ Budget(max_events)
    /\ Cardinality(projects) < MaxProjects
    /\ Step([op |-> "import_manifest", items |-> items, at |-> clock],
            import_manifest(World, items))

ResetProfile(max_events) ==
    /\ Budget(max_events)
    /\ Step([op |-> "reset_profile", at |-> clock], reset_profile(World))

-----------------------------------------------------------------------------
(* The artifact registry: every operation that registers artifacts *)

UrlInputs == {<<"http://", "a.com">>, <<" ", "http://", "a.com">>, <<"a.com">>}

UploadInputs == {None, Some([name |-> <<"v", ".mp4">>, size |-> 2, dur |-> 8000])}

TextKindInputs == {<<"note">>}

OutPathInputs == {<<"a.txt">>, <<"..", "/", "a.txt">>}

ContentInputs == {[size |-> 1, dur |-> -2]}

ToolInputs ==
    {[info |-> "ok", extractor |-> Some(<<"site">>), id |-> Some(<<"v1">>),
      dl |-> "mp4", size |-> 2, dur |-> 8000],
     [info |-> "fail", extractor |-> None, id |-> None,
      dl |-> "fail", size |-> 0, dur |-> -2]}

AllSteps == [at : {0}, how : {"ok"}]

ArtifactIdInputs == {artifacts[i].id : i \in 1..Len(artifacts)} \cup {"zz"}

DefaultExport ==
    [include_original_video |-> None, include_report |-> None,
     include_manifest |-> None, include_clips |-> None, include_audio |-> None,
     include_thumbnails |-> None]

\* AddPoolItemRequest bodies
PoolBody(kind, title, url, source_url, dedup_key, data, selected) ==
    [kind |-> kind, title |-> title, url |-> url, source_url |-> source_url,
     license |-> None, dedup_key |-> dedup_key, data |-> data, selected |-> selected]

\* a project id that is blank, beside those that exist
BlankOr(pids) == pids \cup {" "}

\* bodies the handlers refuse: a blank kind, an out_path without a usable
\* segment, a blank artifact id
BlankKind == <<" ">>
UnusableOutPaths == {<<" ">>, <<"..", "/", ".">>}

Next ==
    \/ CreateProject(MaxEvents)
    \/ Tick
    \/ \E p \in PidInputs, url \in UrlInputs \cup {<<" ">>} :
          AddInputUrl(MaxEvents, p, url)
    \/ \E p \in BlankOr(Pids), upload \in UploadInputs :
          ImportLocalVideo(MaxEvents, p, upload)
    \/ \E p \in BlankOr(Pids), upload \in UploadInputs :
          UploadFileArtifact(MaxEvents, p, upload)
    \/ \E p \in BlankOr(Pids), kind \in TextKindInputs \cup {BlankKind},
          out_path \in OutPathInputs \cup UnusableOutPaths, content \in ContentInputs :
          CreateTextArtifact(MaxEvents, p, kind, out_path, content)
    \/ \E p \in BlankOr(Pids) : UpsertConsent(MaxEvents, p, Some(TRUE), None)
    \/ \E p \in BlankOr(Pids), url \in UrlInputs \cup {<<" ">>},
          download \in {None, Some(TRUE)}, tool \in ToolInputs :
          ImportRemoteMedia(MaxEvents, p, url, download, tool)
    \/ \E p \in BlankOr(Pids), a \in ArtifactIdInputs \cup {" "}, fate \in AllSteps :
          FfmpegPipeline(MaxEvents, p, a, fate)
    \/ \E p \in BlankOr(Pids) : GenerateReport(MaxEvents, p)
    \/ \E p \in BlankOr(Pids), kind \in {<<"note">>, BlankKind} :
          AddPoolItem(MaxEvents, p,
                      PoolBody(kind, None, None, None, Some(<<"k">>), None, None))
    \/ \E p \in BlankOr(Pids) : EstimateExportZip(MaxEvents, p, DefaultExport)
    \/ \E p \in BlankOr(Pids) : ExportZip(MaxEvents, p, DefaultExport)

Spec == Init /\ [][Next]_vars


\* C1: in every state reached by the registering operations the artifacts table
\* holds at most one row per (project_id, kind, path) triple; in particular a
\* URL submitted twice to add_input_url leaves one input_url row.
ArtifactTripleUnique ==
    \A i, j \in 1..Len(artifacts) :
        (/\ artifacts[i].project_id = artifacts[j].project_id
         /\ artifacts[i].kind = artifacts[j].kind
         /\ artifacts[i].path = artifacts[j].path) => i = j

\* the handlers that answer with the one artifact ensure_artifact gave them
EnsureOps == {"create_text_artifact", "upload_file_artifact"}

\* C2: ensure_artifact called again with a triple that is registered, with any
\* timestamp, returns the id and created_at_ms the first call produced and
\* inserts no row; so a handler's repeated registration answers with the first
\* row of the triple, which stays the only one.
EnsureArtifactIdempotent ==
    /\ \A i \in 1..Len(artifacts) : \A t \in 0..(MaxClock + 1) :
          LET row == artifacts[i]
              first == artifacts[MinOf(ArtifactHits(World, row.project_id, row.kind,
                                                    row.path))]
              again == ensure_artifact(World, row.project_id, row.kind, row.path, t)
          IN /\ again.w.artifacts = artifacts
             /\ again.art.id = first.id
             /\ again.art.created_at_ms = first.created_at_ms
    /\ (req.op \in EnsureOps /\ resp.status = "ok") =>
          LET hits == ArtifactHits(World, resp.artifact.project_id, resp.artifact.kind,
                                   resp.artifact.path)
          IN /\ Cardinality(hits) = 1
             /\ \A i \in hits : /\ artifacts[i].id = resp.artifact.id
                                /\ artifacts[i].created_at_ms = resp.artifact.created_at_ms

\* a text artifact was registered again, later than its first registration
EnsureArtifactRepeated ==
    /\ req.op = "create_text_artifact"
    /\ resp.status = "ok"
    /\ resp.artifact.created_at_ms < req.at

\* C14: no step of the server deletes an artifact row or changes its id,
\* project_id, kind, path or created_at_ms: the rows a step finds are the rows
\* it leaves, in place, and new rows only follow them.
ArtifactRowsOnlyGrow ==
    [][/\ Len(artifacts') >= Len(artifacts)
       /\ SubSeq(artifacts', 1, Len(artifacts)) = artifacts]_vars

\* a text was written again, later, to the path of a registered artifact: the
\* row of the first write is still the only one, unchanged
ArtifactRowOutlivedRewrite ==
    /\ req.op = "create_text_artifact"
    /\ resp.status = "ok"
    /\ resp.artifact.created_at_ms < req.at
    /\ artifacts = <<resp.artifact>>

-----------------------------------------------------------------------------
(* Consent under concurrent requests.  Each upsert_consent request runs on   *)
(* its own blocking worker with its own connection; the workers interleave  *)
(* between SQL statements.                                                  *)

Workers == 1..NumWorkers

OptBool == {None, Some(TRUE), Some(FALSE)}

InFlight == {k \in Workers : pc[k] # "idle"}

\* the request arrives: the blank-id check and SELECT 1 FROM projects
ConsentBegin(k, project_id, consented, auto_confirm) ==
    /\ pc[k] = "idle"
    /\ Len(events) + Cardinality(InFlight) < MaxConsentEvents
    /\ LET r == [op |-> "upsert_consent", project_id |-> project_id,
                 consented |-> consented, auto_confirm |-> auto_confirm,
                 at |-> clock]
       IN IF IsBlankId(project_id) \/ ~ProjectExists(World, project_id)
          THEN /\ req' = r
               /\ resp' = IF IsBlankId(project_id) THEN Err("bad_request")
                          ELSE Err("not_found")
               /\ UNCHANGED <<pc, loc>>
          ELSE /\ pc' = [pc EXCEPT ![k] = "select"]
               /\ loc' = [loc EXCEPT ![k] = r]
               /\ UNCHANGED <<req, resp>>
    /\ UNCHANGED <<app, projects, artifacts, pool_items, consents, events, profile,
                   files, uuid, clock, calls>>

\* SELECT consented, auto_confirm FROM consents, and the merge with the request
ConsentSelect(k) ==
    /\ pc[k] = "select"
    /\ pc' = [pc EXCEPT ![k] = "upsert"]
    /\ loc' = [loc EXCEPT ![k] =
                 [op |-> @.op, project_id |-> @.project_id, consented |-> @.consented,
                  auto_confirm |-> @.auto_confirm, at |-> @.at,
                  existing |-> StoredConsent(World, @.project_id)]]
    /\ UNCHANGED <<app, projects, artifacts, pool_items, consents, events, profile,
                   files, uuid, clock, calls, req, resp>>

\* INSERT INTO consents ... ON CONFLICT DO UPDATE, stamped now_ms()
ConsentUpsert(k) ==
    /\ pc[k] = "upsert"
    /\ LET c == merge_consent(loc[k].existing, loc[k].consented, loc[k].auto_confirm)
       IN /\ consents' = PutConsent(World, loc[k].project_id, c, clock).consents
          /\ loc' = [loc EXCEPT ![k] =
                       [op |-> @.op, project_id |-> @.project_id,
                        consented |-> @.consented, auto_confirm |-> @.auto_confirm,
                        at |-> @.at, existing |-> @.existing, merged |-> c,
                        updated_at_ms |-> clock]]
    /\ pc' = [pc EXCEPT ![k] = "event"]
    /\ UNCHANGED <<app, projects, artifacts, pool_items, events, profile,
                   files, uuid, clock, calls, req, resp>>

\* INSERT INTO events ... 'consent_updated', and the response
ConsentEvent(k) ==
    /\ pc[k] = "event"
    /\ events' = AddEvent(World, loc[k].project_id, loc[k].updated_at_ms, "info",
                          "consent_updated").events
    /\ req' = [op |-> "upsert_consent", project_id |-> loc[k].project_id,
               consented |-> loc[k].consented, auto_confirm |-> loc[k].auto_confirm,
               at |-> loc[k].at]
    /\ resp' = [status |-> "ok", project_id |-> loc[k].project_id,
                consented |-> loc[k].merged.consented,
                auto_confirm |-> loc[k].merged.auto_confirm,
                updated_at_ms |-> loc[k].updated_at_ms]
    /\ pc' = [pc EXCEPT ![k] = "idle"]
    /\ loc' = [loc EXCEPT ![k] = NoRequest]
    /\ UNCHANGED <<app, projects, artifacts, pool_items, consents, profile,
                   files, uuid, clock, calls>>

InitConsent ==
    /\ InitStore
    /\ profile = <<>>
    /\ app \in {[ffmpeg |-> TRUE, ffprobe |-> TRUE, ytdlp |-> TRUE]}
    /\ pc = [k \in Workers |-> "idle"]
    /\ loc = [k \in Workers |-> NoRequest]

NextConsent ==
    \/ CreateProject(MaxConsentEvents)
    \/ \E k \in Workers, p \in Pids \cup {"zz"}, c \in OptBool, a \in OptBool :
          ConsentBegin(k, p, c, a)
    \/ \E k \in Workers : ConsentSelect(k)
    \/ \E k \in Workers : ConsentUpsert(k)
    \/ \E k \in Workers : ConsentEvent(k)

SpecConsent == InitConsent /\ [][NextConsent]_vars

\* C3: whatever the sequence and the interleaving of upsert_consent requests,
\* no row of the consents table has auto_confirm = true with consented = false.
AutoConfirmImpliesConsented ==
    \A p \in DOMAIN consents : consents[p].auto_confirm => consents[p].consented

\* a worker that read (consented, auto_confirm) = (true, true) is about to write
\* while another request has meanwhile revoked the consent
StaleConsentInFlight ==
    \E k \in Workers :
        /\ pc[k] = "upsert"
        /\ loc[k].existing = [consented |-> TRUE, auto_confirm |-> TRUE]
        /\ loc[k].project_id \in DOMAIN consents
        /\ ~consents[loc[k].project_id].consented


\* C4: when the stored consent is (consented, auto_confirm) = (true, true) and
\* upsert_consent is called with consented = false, auto_confirm omitted or
\* true, the row it persists and the response it gives are both (false, false).
RevocationClearsAutoConfirm ==
    [][\A k \in Workers :
          LET revokes == /\ loc[k].consented = Some(FALSE)
                         /\ loc[k].auto_confirm \in {None, Some(TRUE)}
          IN /\ (/\ pc[k] = "upsert" /\ pc'[k] = "event"
                 /\ revokes
                 /\ StoredConsent(World, loc[k].project_id)
                      = [consented |-> TRUE, auto_confirm |-> TRUE])
                => /\ ~consents'[loc[k].project_id].consented
                   /\ ~consents'[loc[k].project_id].auto_confirm
             /\ (pc[k] = "event" /\ pc'[k] = "idle" /\ revokes)
                => /\ resp'.status = "ok"
                   /\ ~resp'.consented
                   /\ ~resp'.auto_confirm]_vars

\* a request with consented = false and auto_confirm = true that found the row
\* (true, true) has persisted (false, false)
RevokedWithAutoConfirmRequested ==
    \E k \in Workers :
        /\ pc[k] = "event"
        /\ loc[k].consented = Some(FALSE)
        /\ loc[k].auto_confirm = Some(TRUE)
        /\ loc[k].existing = [consented |-> TRUE, auto_confirm |-> TRUE]
        /\ StoredConsent(World, loc[k].project_id)
             = [consented |-> FALSE, auto_confirm |-> FALSE]

\* the (consented, auto_confirm) a request leaves when it runs alone on a row
ConsentAfter(row, r) == merge_consent(row, r.consented, r.auto_confirm)

\* C26: two upsert_consent requests on one project that run concurrently leave
\* the consent row as some serial order of the two would: when both have read
\* the same row and both have written, the row is what one request after the
\* other makes of the row they read.
ConcurrentConsentIsSerial ==
    \A j, k \in Workers :
        (/\ j # k
         /\ pc[j] = "event"
         /\ pc[k] = "event"
         /\ loc[j].project_id = loc[k].project_id
         /\ loc[j].existing = loc[k].existing)
        => StoredConsent(World, loc[j].project_id)
              \in {ConsentAfter(ConsentAfter(loc[j].existing, loc[j]), loc[k]),
                   ConsentAfter(ConsentAfter(loc[j].existing, loc[k]), loc[j])}

-----------------------------------------------------------------------------
(* Consent updates, one request at a time *)

NextConsentSerial ==
    \/ CreateProject(MaxConsentEvents)
    \/ Tick
    \/ \E p \in PidInputs, c \in OptBool, a \in OptBool :
          UpsertConsent(MaxConsentEvents, p, c, a)

SpecConsentSerial == Init /\ [][NextConsentSerial]_vars

\* C25: upsert_consent keeps the stored value of every field the request
\* omits: the resulting consented is the requested value or else the stored
\* one, the resulting auto_confirm is (the requested value or else the stored
\* one) and the resulting consented, and the response carries both; so
\* consented = true alone leaves a cleared auto_confirm cleared.
OmittedConsentFieldsAreKept ==
    [][(clock' = clock /\ req'.op = "upsert_consent" /\ resp'.status = "ok")
       => LET old == StoredConsent(World, req'.project_id)
              new == consents'[req'.project_id]
              consented == UnwrapOr(req'.consented, old.consented)
              auto_confirm == UnwrapOr(req'.auto_confirm, old.auto_confirm)
          IN /\ new.consented = consented
             /\ new.auto_confirm = (auto_confirm /\ consented)
             /\ resp'.consented = new.consented
             /\ resp'.auto_confirm = new.auto_confirm
             /\ (/\ req'.consented = Some(TRUE)
                 /\ req'.auto_confirm = None
                 /\ ~old.auto_confirm) => ~new.auto_confirm]_vars

\* after a grant with auto_confirm, a revocation and a grant that names
\* consented alone, the row is (true, false)
RegrantedWithoutAutoConfirm ==
    /\ req.op = "upsert_consent"
    /\ req.consented = Some(TRUE)
    /\ req.auto_confirm = None
    /\ resp.status = "ok"
    /\ consents[req.project_id].consented
    /\ ~consents[req.project_id].auto_confirm
    /\ Cardinality({i \in 1..Len(events) :
                       /\ events[i].project_id = req.project_id
                       /\ events[i].message = "consent_updated"}) >= 3

-----------------------------------------------------------------------------
(* The consent gate of the remote resolver *)

RemoteUrlInputs == UrlInputs \cup {<<" ">>, <<"ftp://", "a.com">>}

InitRemote ==
    /\ InitStore
    /\ profile = <<>>
    /\ pc = <<>>
    /\ loc = <<>>
    /\ app \in {[ffmpeg |-> TRUE, ffprobe |-> TRUE, ytdlp |-> TRUE],
                [ffmpeg |-> FALSE, ffprobe |-> FALSE, ytdlp |-> TRUE],
                [ffmpeg |-> TRUE, ffprobe |-> TRUE, ytdlp |-> FALSE]}

NextRemote ==
    \/ CreateProject(MaxRemoteEvents)
    \/ Tick
    \/ \E p \in Pids, c \in OptBool : UpsertConsent(MaxRemoteEvents, p, c, None)
    \/ \E p \in PidInputs, url \in RemoteUrlInputs, download \in OptBool,
          tool \in ToolInputs :
          ImportRemoteMedia(MaxRemoteEvents, p, url, download, tool)

SpecRemote == InitRemote /\ [][NextRemote]_vars

\* the step is an import_remote_media request on an existing project whose
\* consent is unset or false
UnconsentedImport ==
    /\ clock' = clock
    /\ req'.op = "import_remote_media"
    /\ ProjectExists(World, req'.project_id)
    /\ ~StoredConsent(World, req'.project_id).consented

\* the call started no tool and left the artifacts, the files and the events
NothingDone ==
    /\ calls' = <<>>
    /\ artifacts' = artifacts
    /\ files' = files
    /\ events' = events

\* C5 as stated: import_remote_media on an existing project whose consent was
\* never set or is false returns a precondition-failed error, invokes no
\* resolver, registers no artifact, writes no file and records no event.
UnconsentedImportIsPreconditionFailed ==
    [][UnconsentedImport => (resp'.status = "precondition_failed" /\ NothingDone)]_vars

\* the request's URL, trimmed, starts with http:// or https://
WellFormedUrl(url) ==
    StartsWith(Trim(url), "http://") \/ StartsWith(Trim(url), "https://")

\* C5, amended: import_remote_media with an http:// or https:// URL on an
\* existing project whose consent was never set or is false returns a
\* precondition-failed error; with any other URL it returns a bad-request
\* error; either way it invokes no resolver, registers no artifact, writes no
\* file and records no event.
UnconsentedImportIsRefused ==
    [][UnconsentedImport =>
          /\ NothingDone
          /\ resp'.status = IF WellFormedUrl(req'.url) THEN "precondition_failed"
                            ELSE "bad_request"]_vars

\* a download was asked for, with every tool installed, on a project whose
\* consent row says consented = false, and was refused
RefusedWithoutConsent ==
    /\ req.op = "import_remote_media"
    /\ resp.status = "precondition_failed"
    /\ app.ytdlp /\ app.ffmpeg
    /\ req.download = Some(TRUE)
    /\ req.project_id \in DOMAIN consents
    /\ ~consents[req.project_id].consented

\* the step is an import_remote_media request without download (false or
\* omitted), with the resolver installed, on an existing project whose consent
\* is granted
ResolveOnlyImport ==
    /\ clock' = clock
    /\ req'.op = "import_remote_media"
    /\ app.ytdlp
    /\ req'.download \in {None, Some(FALSE)}
    /\ ProjectExists(World, req'.project_id)
    /\ StoredConsent(World, req'.project_id).consented

InputVideoRows(rows) == {i \in 1..Len(rows) : rows[i].kind = <<"input_video">>}

\* no input_video artifact is returned or registered, and the resolver is not
\* run in download mode
NoVideoFetched ==
    /\ resp'.status = "ok" => resp'.input_video = None
    /\ InputVideoRows(artifacts') = InputVideoRows(artifacts)
    /\ \A k \in 1..Len(calls') : calls'[k].mode # "download"

\* C12 as stated: import_remote_media with consent granted, the resolver
\* available and download false or omitted returns success with exactly one new
\* artifact, of kind ytdlp_info, returns and registers no input_video artifact
\* and never runs the resolver in download mode.
ResolveOnlyAddsOneInfoArtifact ==
    [][ResolveOnlyImport =>
          /\ resp'.status = "ok"
          /\ artifacts' = Append(artifacts, resp'.info_artifact)
          /\ resp'.info_artifact.kind = <<"ytdlp_info">>
          /\ NoVideoFetched]_vars

\* C12, amended: such a call returns and registers no input_video artifact and
\* never runs the resolver in download mode; when its URL is an http(s) URL and
\* the resolver run succeeds with JSON output, it returns success with the
\* ytdlp_info artifact of projects/<id>/out/ytdlp/info-<now>.json, which is the
\* one new row, or the row an earlier resolve of the same millisecond made; when
\* the URL is another it is a bad request, and when the resolver run fails it is
\* an internal error, and no artifact is registered.
ResolveOnlyReturnsInfoArtifact ==
    [][ResolveOnlyImport =>
          /\ NoVideoFetched
          /\ IF ~WellFormedUrl(req'.url)
             THEN resp'.status = "bad_request" /\ artifacts' = artifacts
             ELSE IF req'.tool.info # "ok"
             THEN resp'.status = "internal" /\ artifacts' = artifacts
             ELSE /\ resp'.status = "ok"
                  /\ resp'.info_artifact.kind = <<"ytdlp_info">>
                  /\ resp'.info_artifact.path =
                        <<"projects", req'.project_id, "out", "ytdlp",
                          "info-" \o ToString(clock) \o ".json">>
                  /\ \E i \in 1..Len(artifacts') :
                        artifacts'[i] = resp'.info_artifact
                  /\ artifacts' = IF \E i \in 1..Len(artifacts) :
                                        /\ artifacts[i].project_id = req'.project_id
                                        /\ artifacts[i].kind = <<"ytdlp_info">>
                                        /\ artifacts[i].path = resp'.info_artifact.path
                                  THEN artifacts
                                  ELSE Append(artifacts, resp'.info_artifact)]_vars

\* a resolve without download succeeded: the info artifact is the only row of
\* the project and no download was started
ResolvedWithoutDownload ==
    /\ req.op = "import_remote_media"
    /\ req.download \in {None, Some(FALSE)}
    /\ resp.status = "ok"
    /\ resp.input_video = None
    /\ calls # <<>>
    /\ \A i \in 1..Len(artifacts) : artifacts[i] = resp.info_artifact

-----------------------------------------------------------------------------
(* The asset pool *)

PoolInputs ==
    {PoolBody(<<"link">>, None, Some(<<"http://", "a.com">>), None, None, None, None),
     PoolBody(<<" ", "video">>, Some(<<"t">>), None, Some(<<"HTTP://", "A.com", "/">>),
              None, Some(<<"d">>), Some(FALSE)),
     PoolBody(<<"note">>, Some(<<" ">>), None, None, Some(<<"k", " ">>), None, None),
     PoolBody(<<"quote">>, None, Some(<<"http://", "b.com", "#", "x">>), None,
              Some(<<"k">>), None, Some(TRUE)),
     PoolBody(<<"text">>, None, None, None, None, None, None),
     PoolBody(<<" ">>, None, None, None, None, None, None)}

\* the upper-case spelling of an atom
Upper(a) ==
    CASE a = "a.com" -> "A.com"
      [] a = "x" -> "X"
      [] a = "http://" -> "HTTP://"
      [] OTHER -> a

BaseUrls == {<<"http://", "a.com">>, <<"http://", "a.com", "/", "x">>}

\* the spellings of a URL that differ from it by letter case, by a trailing
\* slash and by a fragment
UrlVariants(base) ==
    {spelt \o slash \o fragment :
        spelt \in {base, [i \in 1..Len(base) |-> Upper(base[i])]},
        slash \in {<<>>, <<"/">>},
        fragment \in {<<>>, <<"#", "x">>, <<"#", "y", "/">>}}

\* submissions keyed by their source URL, given as url or as source_url
VariantInputs ==
    {PoolBody(<<"link">>, None, Some(u), None, None, None, None) :
        u \in UNION {UrlVariants(b) : b \in BaseUrls}}
    \cup {PoolBody(<<"image">>, None, None, Some(u), None, None, None) :
             u \in UrlVariants(<<"http://", "a.com">>)}

\* an item of a manifest's "pool_items" array
ManifestItem(kind, source_url, dedup_key) ==
    [kind |-> kind, title |-> None, source_url |-> source_url, license |-> None,
     dedup_key |-> dedup_key, data_json |-> None, selected |-> None]

\* manifests: without items, with two items that have neither key nor URL,
\* and with a keyed item, an item with a URL and one with neither
ManifestInputs ==
    {<<>>,
     <<ManifestItem(Some(<<"note">>), None, None), ManifestItem(None, None, None)>>,
     <<ManifestItem(Some(<<"quote">>), None, Some(<<"k">>)),
       ManifestItem(Some(<<"link">>), Some(<<"http://", "a.com">>), None),
       ManifestItem(Some(<<"text">>), None, None)>>}

NextPool ==
    \/ CreateProject(MaxEvents)
    \/ Tick
    \/ \E items \in ManifestInputs : ImportManifest(MaxEvents, items)
    \/ \E p \in Pids \cup {" "}, r \in PoolInputs \cup VariantInputs :
          AddPoolItem(MaxEvents, p, r)

SpecPool == Init /\ [][NextPool]_vars

\* C6: after any sequence of add_pool_item calls that resolve to one dedup_key
\* in a project, exactly one pool_items row has that key, and its kind, title,
\* source_url, license, data_json and selected are those of the latest call.
PoolItemLatestWins ==
    /\ \A i, j \in 1..Len(pool_items) :
          (/\ pool_items[i].project_id = pool_items[j].project_id
           /\ pool_items[i].dedup_key = pool_items[j].dedup_key) => i = j
    /\ (req.op = "add_pool_item" /\ resp.status = "ok") =>
          LET hits == PoolHits(World, req.project_id, resp.item.dedup_key)
              source_url == TrimmedOpt(IF req.body.source_url # None
                                       THEN req.body.source_url ELSE req.body.url)
          IN /\ Cardinality(hits) = 1
             /\ \A i \in hits :
                  /\ pool_items[i] = resp.item
                  /\ pool_items[i].kind = Trim(req.body.kind)
                  /\ pool_items[i].title = TrimmedOpt(req.body.title)
                  /\ pool_items[i].source_url = source_url
                  /\ pool_items[i].license = TrimmedOpt(req.body.license)
                  /\ pool_items[i].data_json =
                        (IF req.body.data # None THEN req.body.data
                         ELSE IF source_url # None
                         THEN Some(<<"{\"url\":">> \o source_url[1] \o <<"}">>)
                         ELSE None)
                  /\ pool_items[i].selected = UnwrapOr(req.body.selected, TRUE)

\* a later submission landed on the row of an earlier one and changed its kind
PoolItemOverwritten ==
    /\ req.op = "add_pool_item"
    /\ resp.status = "ok"
    /\ resp.item.created_at_ms < req.at
    /\ Len(pool_items) = 1
    /\ resp.item.kind = <<"video">>

\* the source URL of an AddPoolItemRequest body
BodySourceUrl(body) ==
    TrimmedOpt(IF body.source_url # None THEN body.source_url ELSE body.url)

\* two URLs are spellings of one base URL
SameUpToCaseSlashFragment(u, v) ==
    \E b \in BaseUrls : u \in UrlVariants(b) /\ v \in UrlVariants(b)

\* the row took its dedup_key from a source URL
UrlKeyed(row) == Head(row.dedup_key) = "url:" /\ row.source_url # None

\* C13: an add_pool_item call with no explicit dedup_key, whose source URL
\* differs only by letter case, a trailing slash and/or a fragment from the
\* source URL of a row of the project that was keyed by its URL, resolves to
\* the dedup_key of that row and adds no row: the project keeps one row for the
\* two.
UrlVariantsShareRow ==
    [][(/\ clock' = clock
        /\ req'.op = "add_pool_item"
        /\ ProjectExists(World, req'.project_id)
        /\ TrimmedOpt(req'.body.dedup_key) = None
        /\ BodySourceUrl(req'.body) # None)
       => \A i \in 1..Len(pool_items) :
             (/\ pool_items[i].project_id = req'.project_id
              /\ UrlKeyed(pool_items[i])
              /\ SameUpToCaseSlashFragment(pool_items[i].source_url[1],
                                           BodySourceUrl(req'.body)[1]))
             => /\ resp'.status = "ok"
                /\ resp'.item.dedup_key = pool_items[i].dedup_key
                /\ resp'.item.id = pool_items[i].id
                /\ Len(pool_items') = Len(pool_items)
                /\ Cardinality(PoolHits([pool_items |-> pool_items'],
                                        req'.project_id, resp'.item.dedup_key)) = 1]_vars

\* a submission spelt in upper case, with a trailing slash and a fragment,
\* landed on the one row an earlier submission made under the plain key
UrlVariantMerged ==
    /\ req.op = "add_pool_item"
    /\ resp.status = "ok"
    /\ req.body.url = Some(<<"HTTP://", "A.com", "/", "#", "x">>)
    /\ resp.item.dedup_key = <<"url:", "http://", "a.com">>
    /\ resp.item.created_at_ms < req.at
    /\ Len(pool_items) = 1

\* the items of a manifest that have neither a dedup_key nor a source URL
UnkeyedItems(items) ==
    {k \in 1..Len(items) : items[k].dedup_key = None /\ items[k].source_url = None}

\* C19: pool items submitted with neither an explicit dedup_key nor a source
\* URL never merge: each such add_pool_item call adds a row, and an
\* import_manifest adds at least one row per such item of its manifest.
UnkeyedItemsNeverMerge ==
    [][/\ (/\ clock' = clock
           /\ req'.op = "add_pool_item"
           /\ resp'.status = "ok"
           /\ TrimmedOpt(req'.body.dedup_key) = None
           /\ BodySourceUrl(req'.body) = None)
          => Len(pool_items') = Len(pool_items) + 1
       /\ (clock' = clock /\ req'.op = "import_manifest")
          => Len(pool_items') >= Len(pool_items)
                                   + Cardinality(UnkeyedItems(req'.items))]_vars

\* an add_pool_item call that was answered with a pool row
PoolItemAnswered ==
    clock' = clock /\ req'.op = "add_pool_item" /\ resp'.status = "ok"

\* C20: when add_pool_item lands on an existing (project_id, dedup_key) row,
\* the row keeps its id, project_id, dedup_key and created_at_ms, its kind,
\* title, source_url, license, data_json and selected become those of the
\* call, no row is added, and the returned row carries the original id and
\* created_at_ms.
ConflictKeepsIdentity ==
    [][PoolItemAnswered =>
          \A i \in PoolHits(World, req'.project_id, resp'.item.dedup_key) :
             LET old == pool_items[i]
                 new == pool_items'[i]
                 source_url == BodySourceUrl(req'.body)
             IN /\ Len(pool_items') = Len(pool_items)
                /\ new.id = old.id
                /\ new.project_id = old.project_id
                /\ new.dedup_key = old.dedup_key
                /\ new.created_at_ms = old.created_at_ms
                /\ new.kind = Trim(req'.body.kind)
                /\ new.title = TrimmedOpt(req'.body.title)
                /\ new.source_url = source_url
                /\ new.license = TrimmedOpt(req'.body.license)
                /\ new.data_json =
                      (IF req'.body.data # None THEN req'.body.data
                       ELSE IF source_url # None
                       THEN Some(<<"{\"url\":">> \o source_url[1] \o <<"}">>)
                       ELSE None)
                /\ new.selected = UnwrapOr(req'.body.selected, TRUE)
                /\ resp'.item.id = old.id
                /\ resp'.item.created_at_ms = old.created_at_ms]_vars

\* a call at a later time than the row's creation got the row back with its
\* original id and creation time, while a fresh id had been drawn for it
ConflictAnsweredWithOriginalRow ==
    /\ req.op = "add_pool_item"
    /\ resp.status = "ok"
    /\ resp.item.created_at_ms < req.at
    /\ resp.item.id # Uuid(uuid)
    /\ resp.item.selected = FALSE
    /\ \E i \in 1..Len(pool_items) : pool_items[i] = resp.item

-----------------------------------------------------------------------------
(* Derivation: imported videos and the ffmpeg pipeline *)

\* uploads by the duration ffprobe reports for them: shorter than a clip, as
\* long as a clip, longer, and none reported
VideoInputs ==
    {Some([name |-> <<"v", ".mp4">>, size |-> 2, dur |-> d]) :
        d \in {3000, clip_len_s * 1000, 20000, -1}}

\* how a call's tools fare: all exit zero, or one step exits non-zero
FateInputs ==
    {[at |-> 0, how |-> "ok"], [at |-> 1, how |-> "fail"],
     [at |-> 3, how |-> "partial"], [at |-> 6, how |-> "fail"]}

\* the input_video row a request names, if there is one
SourceRows(project_id, artifact_id) ==
    {i \in 1..Len(artifacts) :
        /\ artifacts[i].id = artifact_id
        /\ artifacts[i].project_id = project_id
        /\ artifacts[i].kind = <<"input_video">>
        /\ FileExists(World, artifacts[i].path)}

\* the eight output paths for the backing file as it is now
OutputPaths(project_id, artifact_id) ==
    LET src == artifacts[MinOf(SourceRows(project_id, artifact_id))].path
    IN [k \in 1..8 |-> <<"projects", project_id, "out", "ffmpeg",
                         file_fingerprint(World, src), OutputNames[k]>>]

\* out_paths that name the metadata.json of a derivation
MetadataOutPaths ==
    {<<"ffmpeg", "/", file_fingerprint(World, artifacts[i].path), "/", "metadata.json">> :
        i \in {j \in 1..Len(artifacts) : /\ artifacts[j].kind = <<"input_video">>
                                         /\ FileExists(World, artifacts[j].path)}}

NextFfmpeg ==
    \/ CreateProject(MaxFfmpegEvents)
    \/ Tick
    \/ \E p \in Pids, upload \in VideoInputs :
          /\ Cardinality({i \in 1..Len(artifacts) :
                             artifacts[i].kind = <<"input_video">>}) < MaxVideos
          /\ ImportLocalVideo(MaxFfmpegEvents, p, upload)
    \/ \E p \in Pids, a \in ArtifactIdInputs, fate \in FateInputs :
          FfmpegPipeline(MaxFfmpegEvents, p, a, fate)
    \/ \E p \in Pids, out_path \in MetadataOutPaths, content \in ContentInputs :
          CreateTextArtifact(MaxFfmpegEvents, p, <<"note">>, out_path, content)
    \/ \E i \in 1..Len(artifacts) :
          artifacts[i].kind = <<"input_video">> /\ RemoveFile(artifacts[i].path)

SpecFfmpeg == Init /\ [][NextFfmpeg]_vars

\* ffmpeg_pipeline succeeded before on the backing file as it is now: its eight
\* outputs are registered under the file's fingerprint
DerivedBefore(project_id, artifact_id) ==
    /\ SourceRows(project_id, artifact_id) # {}
    /\ \A k \in 1..8 :
          ArtifactHits(World, project_id, <<OutputKinds[k]>>,
                       OutputPaths(project_id, artifact_id)[k]) # {}

\* the step is an ffmpeg_pipeline request that starts no tool, makes no file and
\* no row, and answers with the registered ids and paths
AnsweredFromDisk ==
    LET rel == OutputPaths(req'.project_id, req'.artifact_id)
        arts == <<resp'.metadata>> \o resp'.clips \o <<resp'.audio>> \o resp'.thumbnails
    IN /\ resp'.status = "ok"
       /\ calls' = <<>>
       /\ files' = files
       /\ artifacts' = artifacts
       /\ \A k \in 1..8 :
             /\ arts[k].path = rel[k]
             /\ \A i \in ArtifactHits(World, req'.project_id, <<OutputKinds[k]>>, rel[k]) :
                   artifacts[i].id = arts[k].id

RepeatedDerivation ==
    /\ clock' = clock
    /\ req'.op = "ffmpeg_pipeline"
    /\ DerivedBefore(req'.project_id, req'.artifact_id)

ReturnedArtifacts ==
    <<resp.metadata>> \o resp.clips \o <<resp.audio>> \o resp.thumbnails

\* C9: a successful ffmpeg_pipeline call returns one metadata artifact, three
\* clips (clip_start, clip_mid, clip_end), one audio artifact and three
\* thumbnails (thumb_start, thumb_mid, thumb_end), with eight pairwise distinct
\* paths directly under projects/<project>/out/ffmpeg/<fingerprint>/, whatever
\* the duration of the source.
DerivationReturnsEightOutputs ==
    (req.op = "ffmpeg_pipeline" /\ resp.status = "ok") =>
        /\ resp.metadata.kind = <<"metadata_json">>
        /\ Len(resp.clips) = 3
        /\ [k \in 1..3 |-> resp.clips[k].kind]
             = <<(<<"clip_start">>), (<<"clip_mid">>), (<<"clip_end">>)>>
        /\ resp.audio.kind = <<"audio_wav">>
        /\ Len(resp.thumbnails) = 3
        /\ [k \in 1..3 |-> resp.thumbnails[k].kind]
             = <<(<<"thumb_start">>), (<<"thumb_mid">>), (<<"thumb_end">>)>>
        /\ Cardinality({ReturnedArtifacts[k].path : k \in 1..8}) = 8
        /\ \A k \in 1..8 :
              /\ Len(ReturnedArtifacts[k].path) = 6
              /\ SubSeq(ReturnedArtifacts[k].path, 1, 5)
                   = <<"projects", req.project_id, "out", "ffmpeg", resp.fingerprint>>
              /\ ReturnedArtifacts[k].project_id = req.project_id

\* the pipeline succeeded on a source shorter than one clip
ShortSourceDerived ==
    /\ req.op = "ffmpeg_pipeline"
    /\ resp.status = "ok"
    /\ \E i \in SourceRows(req.project_id, req.artifact_id) :
          /\ files[artifacts[i].path].dur > 0
          /\ files[artifacts[i].path].dur < clip_len_s * 1000

\* the artifact rows a request names, whatever their kind
NamedRows(r) ==
    {i \in 1..Len(artifacts) :
        artifacts[i].id = r.artifact_id /\ artifacts[i].project_id = r.project_id}

\* the request names an artifact that cannot be derived from: it is not an
\* input_video, or its backing file is gone
NotDerivable(r) ==
    /\ NamedRows(r) # {}
    /\ LET row == artifacts[MinOf(NamedRows(r))]
       IN row.kind # <<"input_video">> \/ ~FileExists(World, row.path)

\* C21: ffmpeg_pipeline on an artifact whose kind is not input_video, or whose
\* backing file is missing on disk, fails with a precondition-failed error,
\* invokes no external tool and registers no artifact.
UnderivableIsPreconditionFailed ==
    [][(clock' = clock /\ req'.op = "ffmpeg_pipeline" /\ NotDerivable(req'))
       => /\ resp' = Err("precondition_failed")
          /\ calls' = <<>>
          /\ artifacts' = artifacts]_vars

\* the request is an ffmpeg_pipeline call whose step fate.at exits non-zero and
\* is reached: its output is not on disk, and the metadata.json on disk, if
\* any, holds JSON
FailingStepRuns(r) ==
    /\ r.op = "ffmpeg_pipeline"
    /\ r.fate.at # 0
    /\ SourceRows(r.project_id, r.artifact_id) # {}
    /\ LET rel == OutputPaths(r.project_id, r.artifact_id)
       IN /\ ~FileExists(World, rel[r.fate.at])
          /\ (r.fate.at > 1 /\ FileExists(World, rel[1])) => files[rel[1]].dur # -2

\* the steps of a call up to its failing one whose output is not on disk
StepsDue(r) ==
    {j \in 1..r.fate.at :
        ~FileExists(World, OutputPaths(r.project_id, r.artifact_id)[j])}

\* C22: within one ffmpeg_pipeline call, as soon as one tool invocation
\* returns non-zero the call returns an error and starts no further tool: the
\* tools it started are those of the steps due up to the failing one, each
\* once, and no output of a later step appears.
FailedToolEndsTheCall ==
    [][(clock' = clock /\ FailingStepRuns(req'))
       => /\ resp' = Err("internal")
          /\ Len(calls') = Cardinality(StepsDue(req'))
          /\ \A j \in 1..8 :
                j > req'.fate.at =>
                   LET out == OutputPaths(req'.project_id, req'.artifact_id)[j]
                   IN FileExists(World, out) <=> out \in DOMAIN files']_vars

\* the sixth step of a call failed after five tools had run in that call
FailedAtSixthStep ==
    /\ req.op = "ffmpeg_pipeline"
    /\ req.fate = [at |-> 6, how |-> "fail"]
    /\ resp = Err("internal")
    /\ Len(calls) = 6

\* the outputs of a call that are not on disk
OutputsAbsent(r) ==
    {j \in 1..8 : ~FileExists(World, OutputPaths(r.project_id, r.artifact_id)[j])}

\* C23: if a probe or transcode step of an ffmpeg_pipeline call fails, the
\* call leaves the artifacts and events tables unchanged, even for the
\* outputs it produced; the files of its completed steps are on disk, no file
\* is removed, and a later call starts no tool for an output that is on disk.
FailedCallRegistersNothing ==
    [][/\ (clock' = clock /\ FailingStepRuns(req'))
          => /\ artifacts' = artifacts
             /\ events' = events
             /\ \A q \in DOMAIN files : q \in DOMAIN files'
             /\ \A j \in 1..8 :
                   j < req'.fate.at =>
                      OutputPaths(req'.project_id, req'.artifact_id)[j]
                         \in DOMAIN files'
       /\ (/\ clock' = clock
           /\ req'.op = "ffmpeg_pipeline"
           /\ SourceRows(req'.project_id, req'.artifact_id) # {})
          => Len(calls') <= Cardinality(OutputsAbsent(req'))]_vars

\* a retry after a call whose sixth step failed ran the three missing steps
\* only and registered the eight outputs
RetriedAfterFailure ==
    /\ req.op = "ffmpeg_pipeline"
    /\ resp.status = "ok"
    /\ Len(calls) = 3
    /\ \A k \in 1..3 : calls[k].mode = "thumb"

\* the transcode outputs of a call that a failed tool left zero-length on disk
OutputsTruncated(r) ==
    {j \in 2..8 :
        LET out == OutputPaths(r.project_id, r.artifact_id)[j]
        IN FileExists(World, out) /\ files[out].size = 0}

\* C24: on a retry of ffmpeg_pipeline after a failed call, an output file the
\* failed tool left zero-length or partially written is treated as absent: the
\* retry starts the tools of the absent and of the truncated outputs.
TruncatedOutputIsRedone ==
    [][(/\ clock' = clock
        /\ req'.op = "ffmpeg_pipeline"
        /\ req'.fate.at = 0
        /\ SourceRows(req'.project_id, req'.artifact_id) # {}
        /\ OutputsTruncated(req') # {}
        /\ LET meta == OutputPaths(req'.project_id, req'.artifact_id)[1]
           IN FileExists(World, meta) => files[meta].dur # -2)
       => Len(calls') = Cardinality(OutputsAbsent(req') \cup OutputsTruncated(req'))]_vars

-----------------------------------------------------------------------------
(* Remote imports: two import_remote_media requests and consent updates at once *)

\* what yt-dlp does in these imports: it resolves and downloads
ResolvedTool ==
    [info |-> "ok", extractor |-> Some(<<"site">>), id |-> Some(<<"v1">>),
     dl |-> "mp4", size |-> 2, dur |-> 8000]

\* the request arrives with a well-formed URL for an existing project:
\* SELECT consented FROM consents, and the refusal if it is false
ImportGate(k, project_id, download) ==
    /\ pc[k] = "idle"
    /\ Len(events) + Cardinality(InFlight) < MaxImportEvents
    /\ app.ytdlp /\ app.ffmpeg
    /\ ProjectExists(World, project_id)
    /\ LET r == [op |-> "import_remote_media", project_id |-> project_id,
                 url |-> <<"http://", "a.com">>, download |-> download,
                 tool |-> ResolvedTool, at |-> clock]
       IN IF ~consent_gate(World, project_id)
          THEN /\ req' = r
               /\ resp' = Err("precondition_failed")
               /\ UNCHANGED <<pc, loc>>
          ELSE /\ pc' = [pc EXCEPT ![k] = "resolve"]
               /\ loc' = [loc EXCEPT ![k] = r]
               /\ UNCHANGED <<req, resp>>
    /\ UNCHANGED <<app, projects, artifacts, pool_items, consents, events, profile,
                   files, uuid, clock, calls>>

\* yt-dlp --dump-single-json runs; the info file is written under now_ms()
ImportResolve(k) ==
    /\ pc[k] = "resolve"
    /\ LET created_at_ms == clock
           rel_info_path == <<"projects", loc[k].project_id, "out", "ytdlp",
                              "info-" \o ToString(created_at_ms) \o ".json">>
       IN /\ calls' = Append(calls, [tool |-> "yt-dlp", mode |-> "info", ss |-> 0])
          /\ files' = WriteFile(World, rel_info_path, 1, -1).files
          /\ loc' = [loc EXCEPT ![k] =
                       [op |-> @.op, project_id |-> @.project_id, url |-> @.url,
                        download |-> @.download, tool |-> @.tool, at |-> @.at,
                        created_at_ms |-> created_at_ms,
                        kind |-> <<"ytdlp_info">>, path |-> rel_info_path,
                        arts |-> <<>>]]
    /\ pc' = [pc EXCEPT ![k] = "select"]
    /\ UNCHANGED <<app, projects, artifacts, pool_items, consents, events, profile,
                   uuid, clock, req, resp>>

\* ensure_artifact: SELECT id, created_at_ms FROM artifacts WHERE project_id,
\* kind, path
ImportEnsureSelect(k) ==
    /\ pc[k] = "select"
    /\ IF ArtifactHits(World, loc[k].project_id, loc[k].kind, loc[k].path) # {}
       THEN /\ loc' = [loc EXCEPT ![k].arts =
                          Append(@, ensure_artifact(World, loc[k].project_id,
                                                    loc[k].kind, loc[k].path,
                                                    loc[k].created_at_ms).art)]
            /\ pc' = [pc EXCEPT ![k] = "event"]
       ELSE pc' = [pc EXCEPT ![k] = "insert"] /\ loc' = loc
    /\ UNCHANGED <<app, projects, artifacts, pool_items, consents, events, profile,
                   files, uuid, clock, calls, req, resp>>

\* ensure_artifact: INSERT INTO artifacts, under a fresh id
ImportEnsureInsert(k) ==
    /\ pc[k] = "insert"
    /\ LET ins == InsertArtifact(World, loc[k].project_id, loc[k].kind, loc[k].path,
                                 loc[k].created_at_ms)
       IN /\ artifacts' = ins.w.artifacts
          /\ uuid' = ins.w.uuid
          /\ loc' = [loc EXCEPT ![k].arts = Append(@, ins.art)]
    /\ pc' = [pc EXCEPT ![k] = "event"]
    /\ UNCHANGED <<app, projects, pool_items, consents, events, profile,
                   files, clock, calls, req, resp>>

\* INSERT INTO events 'remote_resolve' or 'remote_download'; then the download
\* if one was asked for and has not been made, else the response
ImportEvent(k) ==
    /\ pc[k] = "event"
    /\ LET resolved == Len(loc[k].arts) = 1
           more == resolved /\ download_requested(loc[k].download)
       IN /\ events' = AddEvent(World, loc[k].project_id, loc[k].created_at_ms, "info",
                                IF resolved THEN "remote_resolve"
                                ELSE "remote_download").events
          /\ IF more
             THEN /\ pc' = [pc EXCEPT ![k] = "download"]
                  /\ UNCHANGED <<loc, req, resp>>
             ELSE /\ pc' = [pc EXCEPT ![k] = "idle"]
                  /\ loc' = [loc EXCEPT ![k] = NoRequest]
                  /\ req' = [op |-> loc[k].op, project_id |-> loc[k].project_id,
                             url |-> loc[k].url, download |-> loc[k].download,
                             tool |-> loc[k].tool, at |-> loc[k].at]
                  /\ resp' = [status |-> "ok", info_artifact |-> loc[k].arts[1],
                              input_video |-> IF resolved THEN None
                                              ELSE Some(loc[k].arts[2])]
    /\ UNCHANGED <<app, projects, artifacts, pool_items, consents, profile,
                   files, uuid, clock, calls>>

\* yt-dlp runs in download mode and leaves <extractor>-<id>.mp4
ImportDownload(k) ==
    /\ pc[k] = "download"
    /\ LET out_dir == <<"projects", loc[k].project_id, "media", "remote">>
           file_base == sanitize_file_name(UnwrapOr(loc[k].tool.extractor, <<"unknown">>))
                            \o "-"
                            \o sanitize_file_name(UnwrapOr(loc[k].tool.id, <<"unknown">>))
           expected == Append(out_dir, file_base \o "." \o loc[k].tool.dl)
       IN /\ calls' = Append(calls, [tool |-> "yt-dlp", mode |-> "download", ss |-> 0])
          /\ files' = WriteFile(World, expected, loc[k].tool.size, loc[k].tool.dur).files
          /\ loc' = [loc EXCEPT ![k].kind = <<"input_video">>, ![k].path = expected]
    /\ pc' = [pc EXCEPT ![k] = "select"]
    /\ UNCHANGED <<app, projects, artifacts, pool_items, consents, events, profile,
                   uuid, clock, req, resp>>

NextImports ==
    \/ CreateProject(MaxImportEvents)
    \/ \E p \in Pids, c \in {Some(TRUE), Some(FALSE)} :
          /\ Len(events) + Cardinality(InFlight) < MaxImportEvents
          /\ UpsertConsent(MaxImportEvents, p, c, None)
    \/ \E k \in Workers, p \in Pids, download \in OptBool : ImportGate(k, p, download)
    \/ \E k \in Workers : ImportResolve(k)
    \/ \E k \in Workers : ImportEnsureSelect(k)
    \/ \E k \in Workers : ImportEnsureInsert(k)
    \/ \E k \in Workers : ImportEvent(k)
    \/ \E k \in Workers : ImportDownload(k)

SpecImports == InitConsent /\ [][NextImports]_vars

\* the workers that hold the response of an ensure_artifact call
Ensured == {k \in Workers : pc[k] \in {"event", "download"} /\ loc[k].arts # <<>>}

\* C27: when two requests call ensure_artifact concurrently with the same
\* (project, kind, path) triple, exactly one artifact row for that triple
\* exists afterwards and both callers receive the same artifact id.
ConcurrentEnsureMakesOneRow ==
    /\ \A i, j \in 1..Len(artifacts) :
          (/\ artifacts[i].project_id = artifacts[j].project_id
           /\ artifacts[i].kind = artifacts[j].kind
           /\ artifacts[i].path = artifacts[j].path) => i = j
    /\ \A j, k \in Ensured :
          \A m \in 1..Len(loc[j].arts), n \in 1..Len(loc[k].arts) :
             (/\ loc[j].arts[m].project_id = loc[k].arts[n].project_id
              /\ loc[j].arts[m].kind = loc[k].arts[n].kind
              /\ loc[j].arts[m].path = loc[k].arts[n].path)
             => loc[j].arts[m].id = loc[k].arts[n].id

\* C29: no resolver invocation of import_remote_media, in metadata mode or in
\* download mode, starts at a moment when the stored consented flag of the
\* project is false, a concurrent revocation included.
ResolverStartsUnderConsent ==
    [][\A k \in Workers :
          (\/ pc[k] = "resolve" /\ pc'[k] = "select"
           \/ pc[k] = "download" /\ pc'[k] = "select")
          => StoredConsent(World, loc[k].project_id).consented]_vars

-----------------------------------------------------------------------------
(* Pool items: two add_pool_item requests at once *)

\* the request arrives and passes its checks: INSERT INTO pool_items ... ON
\* CONFLICT(project_id, dedup_key) DO UPDATE
PoolUpsert(k, project_id, r) ==
    /\ pc[k] = "idle"
    /\ Len(events) + Cardinality(InFlight) < MaxEvents
    /\ LET out == add_pool_item(World, project_id, r)
       IN /\ out.resp.status = "ok"
          /\ pool_items' = out.w.pool_items
          /\ uuid' = out.w.uuid
          /\ loc' = [loc EXCEPT ![k] =
                       [op |-> "add_pool_item", project_id |-> project_id, body |-> r,
                        at |-> clock, dedup_key |-> out.resp.item.dedup_key]]
    /\ pc' = [pc EXCEPT ![k] = "event"]
    /\ UNCHANGED <<app, projects, artifacts, consents, events, profile,
                   files, clock, calls, req, resp>>

\* INSERT INTO events ... 'pool_item_upsert'
PoolEvent(k) ==
    /\ pc[k] = "event"
    /\ events' = AddEvent(World, loc[k].project_id, loc[k].at, "info",
                          "pool_item_upsert").events
    /\ pc' = [pc EXCEPT ![k] = "readback"]
    /\ UNCHANGED <<app, projects, artifacts, pool_items, consents, profile,
                   files, uuid, clock, calls, req, resp, loc>>

\* SELECT ... FROM pool_items WHERE project_id, dedup_key LIMIT 1, and the
\* response
PoolReadBack(k) ==
    /\ pc[k] = "readback"
    /\ LET back == PoolHits(World, loc[k].project_id, loc[k].dedup_key)
       IN resp' = IF back = {} THEN Err("internal")
                  ELSE [status |-> "ok", item |-> pool_items[MinOf(back)]]
    /\ req' = [op |-> loc[k].op, project_id |-> loc[k].project_id,
               body |-> loc[k].body, at |-> loc[k].at]
    /\ pc' = [pc EXCEPT ![k] = "idle"]
    /\ loc' = [loc EXCEPT ![k] = NoRequest]
    /\ UNCHANGED <<app, projects, artifacts, pool_items, consents, events, profile,
                   files, uuid, clock, calls>>

NextUpserts ==
    \/ CreateProject(MaxEvents)
    \/ \E k \in Workers, p \in Pids, r \in PoolInputs : PoolUpsert(k, p, r)
    \/ \E k \in Workers : PoolEvent(k)
    \/ \E k \in Workers : PoolReadBack(k)

SpecUpserts == InitConsent /\ [][NextUpserts]_vars

\* C30: the row add_pool_item returns to a caller carries the kind, title,
\* source_url, license, data_json and selected of that caller's own
\* submission, also when another add_pool_item with the same dedup_key runs
\* concurrently.
ReturnedRowIsOwnSubmission ==
    (req.op = "add_pool_item" /\ resp.status = "ok") =>
        LET source_url == BodySourceUrl(req.body)
        IN /\ resp.item.kind = Trim(req.body.kind)
           /\ resp.item.title = TrimmedOpt(req.body.title)
           /\ resp.item.source_url = source_url
           /\ resp.item.license = TrimmedOpt(req.body.license)
           /\ resp.item.data_json =
                 (IF req.body.data # None THEN req.body.data
                  ELSE IF source_url # None
                  THEN Some(<<"{\"url\":">> \o source_url[1] \o <<"}">>)
                  ELSE None)
           /\ resp.item.selected = UnwrapOr(req.body.selected, TRUE)

-----------------------------------------------------------------------------
(* Derivation: two ffmpeg_pipeline requests at once *)

\* Each request runs in its own blocking task on its own connection
\* (Connection::open), in autocommit mode: its statements, its Path::exists
\* tests and its tool invocations interleave with those of the other request.

\* what the tool of step j is started as
StepMode == <<"probe", "clip", "clip", "clip", "audio", "thumb", "thumb", "thumb">>

StepOffset(duration_ms, j) ==
    LET at == ClipOffsets(duration_ms)
    IN CASE j \in {2, 6} -> at.start
         [] j \in {3, 7} -> at.mid
         [] j \in {4, 8} -> at.end
         [] OTHER -> 0

\* the request arrives and passes the checks on the project, the source
\* artifact and its file; the output paths are fixed from the fingerprint
PipelineBegin(k, project_id, artifact_id) ==
    /\ pc[k] = "idle"
    /\ Len(events) + Cardinality(InFlight) < MaxPipelineEvents
    /\ app.ffmpeg /\ app.ffprobe
    /\ SourceRows(project_id, artifact_id) # {}
    /\ pc' = [pc EXCEPT ![k] = "check"]
    /\ loc' = [loc EXCEPT ![k] =
                 [op |-> "ffmpeg_pipeline", project_id |-> project_id,
                  artifact_id |-> artifact_id, at |-> clock,
                  rel |-> OutputPaths(project_id, artifact_id),
                  step |-> 1, duration_ms |-> 0]]
    /\ UNCHANGED <<app, projects, artifacts, pool_items, consents, events, profile,
                   files, uuid, clock, calls, req, resp>>

\* step j of worker k is done with fs as the files: on to the next step, the
\* duration being read from metadata.json after the first, and to the
\* registration after the last
PipelineAdvance(k, fs) ==
    LET j == loc[k].step
    IN /\ pc' = [pc EXCEPT ![k] = IF j = 8 THEN "register" ELSE "check"]
       /\ loc' = [loc EXCEPT ![k].step = IF j = 8 THEN @ ELSE j + 1,
                             ![k].duration_ms =
                                 IF j = 1 THEN Max(fs[loc[k].rel[1]].dur, 0) ELSE @]

\* if abs.exists() { continue; }
PipelineCheck(k) ==
    /\ pc[k] = "check"
    /\ IF skip_if_exists(World, loc[k].rel[loc[k].step])
       THEN PipelineAdvance(k, files)
       ELSE pc' = [pc EXCEPT ![k] = "run"] /\ loc' = loc
    /\ UNCHANGED <<app, projects, artifacts, pool_items, consents, events, profile,
                   files, uuid, clock, calls, req, resp>>

\* the tool of the step is started and writes its output
PipelineRun(k) ==
    /\ pc[k] = "run"
    /\ LET j == loc[k].step
           out == loc[k].rel[j]
           src == artifacts[MinOf(SourceRows(loc[k].project_id, loc[k].artifact_id))].path
           w1 == WriteFile(World, out, 1, IF j = 1 THEN files[src].dur ELSE -2)
       IN /\ calls' = Append(calls, [tool |-> IF j = 1 THEN "ffprobe" ELSE "ffmpeg",
                                      mode |-> StepMode[j],
                                      ss |-> StepOffset(loc[k].duration_ms, j),
                                      out |-> out])
          /\ files' = w1.files
          /\ PipelineAdvance(k, w1.files)
    /\ UNCHANGED <<app, projects, artifacts, pool_items, consents, events, profile,
                   uuid, clock, req, resp>>

\* the eight ensure_artifact calls, the 'ffmpeg_pipeline' event and the response
PipelineRegister(k) ==
    /\ pc[k] = "register"
    /\ LET reg == EnsureAll(World, loc[k].project_id, loc[k].rel, 1, <<>>)
       IN /\ artifacts' = reg.w.artifacts
          /\ uuid' = reg.w.uuid
          /\ events' = AddEvent(reg.w, loc[k].project_id, clock, "info",
                                "ffmpeg_pipeline").events
          /\ resp' = [status |-> "ok",
                      input_video_artifact_id |-> loc[k].artifact_id,
                      fingerprint |-> loc[k].rel[1][5],
                      metadata |-> reg.arts[1],
                      clips |-> SubSeq(reg.arts, 2, 4),
                      audio |-> reg.arts[5],
                      thumbnails |-> SubSeq(reg.arts, 6, 8)]
    /\ req' = [op |-> "ffmpeg_pipeline", project_id |-> loc[k].project_id,
               artifact_id |-> loc[k].artifact_id,
               fate |-> [at |-> 0, how |-> "ok"], at |-> loc[k].at]
    /\ pc' = [pc EXCEPT ![k] = "idle"]
    /\ loc' = [loc EXCEPT ![k] = NoRequest]
    /\ UNCHANGED <<app, projects, pool_items, consents, profile, files, clock, calls>>

NextPipelines ==
    \/ CreateProject(MaxPipelineEvents)
    \/ \E p \in Pids, upload \in VideoInputs :
          /\ Cardinality({i \in 1..Len(artifacts) :
                             artifacts[i].kind = <<"input_video">>}) < MaxVideos
          /\ ImportLocalVideo(MaxPipelineEvents, p, upload)
    \/ \E k \in Workers, p \in Pids, a \in ArtifactIdInputs : PipelineBegin(k, p, a)
    \/ \E k \in Workers : PipelineCheck(k)
    \/ \E k \in Workers : PipelineRun(k)
    \/ \E k \in Workers : PipelineRegister(k)

SpecPipelines == InitConsent /\ [][NextPipelines]_vars

\* C28: when two ffmpeg_pipeline requests for one source artifact run
\* concurrently, each output path under the fingerprint directory is written
\* by at most one tool invocation.
OutputWrittenByOneInvocation ==
    \A a, b \in 1..Len(calls) : calls[a].out = calls[b].out => a = b

-----------------------------------------------------------------------------
(* Export: the estimate against the archive *)

\* ExportZipRequest bodies: every combination of the six flags, and no flag
FlagInputs ==
    [include_original_video : {Some(TRUE), Some(FALSE)},
     include_report : {Some(TRUE), Some(FALSE)},
     include_manifest : {Some(TRUE), Some(FALSE)},
     include_clips : {Some(TRUE), Some(FALSE)},
     include_audio : {Some(TRUE), Some(FALSE)},
     include_thumbnails : {Some(TRUE), Some(FALSE)}]
    \cup {DefaultExport}

EverythingExport ==
    [include_original_video |-> Some(TRUE), include_report |-> Some(TRUE),
     include_manifest |-> Some(TRUE), include_clips |-> Some(TRUE),
     include_audio |-> Some(TRUE), include_thumbnails |-> Some(TRUE)]

\* the kinds whose backing files the environment deletes here
RemovableKinds == {<<"report_html">>, <<"input_video">>}

ReportOutPaths == {<<"r.html">>, <<"export", "/", "selected_pool.json">>}

NextExport ==
    \/ CreateProject(MaxExportEvents)
    \/ Tick
    \/ \E p \in Pids, upload \in UploadInputs \ {None} :
          /\ Cardinality({i \in 1..Len(artifacts) :
                             artifacts[i].kind = <<"input_video">>}) < MaxVideos
          /\ ImportLocalVideo(MaxExportEvents, p, upload)
    \/ \E p \in Pids, a \in ArtifactIdInputs \ {"zz"} :
          FfmpegPipeline(MaxExportEvents, p, a, [at |-> 0, how |-> "ok"])
    \/ \E p \in Pids, out_path \in ReportOutPaths, content \in ContentInputs :
          CreateTextArtifact(MaxExportEvents, p, <<"report_html">>, out_path, content)
    \/ \E p \in Pids : GenerateReport(MaxExportEvents, p)
    \/ \E p \in Pids :
          AddPoolItem(MaxExportEvents, p,
                      PoolBody(<<"link">>, None, Some(<<"http://", "a.com">>), None,
                               None, None, None))
    \/ \E p \in Pids \cup {"zz"}, r \in {DefaultExport, EverythingExport} :
          EstimateExportZip(MaxExportEvents, p, r)
    \/ \E p \in Pids, r \in FlagInputs : ExportZip(MaxExportEvents, p, r)
    \/ \E i \in 1..Len(artifacts) :
          /\ artifacts[i].kind \in RemovableKinds
          /\ RemoveFile(artifacts[i].path)

SpecExport == Init /\ [][NextExport]_vars

\* C7: for every combination of the six include flags, the total_bytes that
\* estimate_export_zip returns on a store equals the total_bytes export_zip
\* returns when it runs on that same store (the sum of the sizes of the files
\* it puts into the archive).
EstimateEqualsExport ==
    [][(clock' = clock /\ req'.op = "export_zip" /\ resp'.status = "ok") =>
          /\ resp'.total_bytes = SumBytes(resp'.entries)
          /\ resp'.total_bytes =
                estimate_export_zip(World, req'.project_id, req'.body).resp.total_bytes]_vars

\* the step is an estimate or an export on an existing project
ExportStep ==
    /\ clock' = clock
    /\ req'.op \in {"estimate_export_zip", "export_zip"}
    /\ ProjectExists(World, req'.project_id)

\* the latest artifacts of the kinds the request asks for, in archive order
RequestedLatest ==
    LET queries == ExportQueries(World, req'.project_id, ExportFlags(req'.body))
    IN queries.report \o queries.manifest \o queries.rest

\* the entries the step lists: the estimate's files, the archive's entries
ListedEntries == IF req'.op = "export_zip" THEN resp'.entries ELSE resp'.files

\* C15: when the latest artifact of a requested kind has no backing file, both
\* estimate_export_zip and export_zip succeed and leave its entry out; the
\* entries of the kind's directory are those of latest artifacts only, never of
\* an older artifact of the kind.
MissingFileIsLeftOut ==
    [][(/\ ExportStep
        /\ \E k \in 1..Len(RequestedLatest) : ~FileExists(World, RequestedLatest[k].path))
       => /\ resp'.status = "ok"
          /\ \A k \in 1..Len(RequestedLatest) :
                ~FileExists(World, RequestedLatest[k].path) =>
                   \A e \in 1..Len(ListedEntries) :
                      ListedEntries[e].name # EntryName(RequestedLatest[k])
          /\ \A e \in 1..Len(ListedEntries) :
                \/ ListedEntries[e].name = "selected_pool.json"
                \/ \E k \in 1..Len(RequestedLatest) :
                      ListedEntries[e].name = EntryName(RequestedLatest[k])]_vars

EntryNames(entries) == [k \in 1..Len(entries) |-> entries[k].name]

\* the archive layout: three fixed names and four directories of file names
LayoutName(name) ==
    \/ name \in {"report.html", "manifest.json", "selected_pool.json"}
    \/ \E dir \in {"input_video", "clips", "audio", "thumbnails"} :
          \E i \in 1..Len(artifacts) :
             name = dir \o "/" \o artifacts[i].path[Len(artifacts[i].path)]

\* C16: for every combination of include flags, the ordered entry names
\* estimate_export_zip reports on a store are the ordered entry names
\* export_zip writes into the archive when it runs on that same store; both
\* hold selected_pool.json whatever the flags, and every name is report.html,
\* manifest.json, selected_pool.json or a file name under input_video/, clips/,
\* audio/ or thumbnails/.
EstimateNamesEqualExportNames ==
    [][(/\ clock' = clock
        /\ req'.op = "export_zip"
        /\ ProjectExists(World, req'.project_id))
       => LET estimate == estimate_export_zip(World, req'.project_id, req'.body).resp
          IN /\ estimate.status = "ok"
             /\ resp'.status = "ok"
             /\ EntryNames(resp'.entries) = EntryNames(estimate.files)
             /\ \E k \in 1..Len(estimate.files) :
                   estimate.files[k].name = "selected_pool.json"
             /\ \E k \in 1..Len(resp'.entries) :
                   resp'.entries[k].name = "selected_pool.json"
             /\ \A k \in 1..Len(resp'.entries) : LayoutName(resp'.entries[k].name)
             /\ \A k \in 1..Len(estimate.files) : LayoutName(estimate.files[k].name)]_vars

\* the manifest.json entries of an archive
ManifestEntries(entries) ==
    {k \in 1..Len(entries) : entries[k].name = "manifest.json"}

\* C31: the manifest.json that export_zip puts into the archive lists the
\* artifacts and pool items of the project as they are when export_zip is
\* called, also when they changed after the last generate_report: its length
\* is that of a manifest written from the store of the export call, the rows
\* of the report and of the manifest themselves aside.
ArchiveManifestIsCurrent ==
    [][(/\ clock' = clock
        /\ req'.op = "export_zip"
        /\ resp'.status = "ok")
       => \A k \in ManifestEntries(resp'.entries) :
             /\ resp'.entries[k].bytes <= ManifestBytes(World, req'.project_id)
             /\ resp'.entries[k].bytes >= ManifestBytes(World, req'.project_id) - 2]_vars

-----------------------------------------------------------------------------
(* Derivation of several videos of a project, and what an export selects *)

\* uploads of two lengths
SizedUploads ==
    {Some([name |-> <<"v", ".mp4">>, size |-> n, dur |-> 8000]) : n \in {2, 3}}

ClipsExport == [DefaultExport EXCEPT !.include_clips = Some(TRUE)]

RederiveBudget == Len(events) < MaxRederiveEvents

NextRederive ==
    \/ /\ RederiveBudget
       /\ Cardinality(projects) < MaxProjects
       /\ Step([op |-> "create_project", at |-> clock], create_project(World))
    \/ Tick
    \/ \E p \in Pids, upload \in SizedUploads :
          /\ RederiveBudget
          /\ Cardinality(InputVideoRows(artifacts)) < MaxInputs
          /\ Step([op |-> "import_local_video", project_id |-> p,
                   upload |-> upload, at |-> clock],
                  import_local_video(World, p, upload))
    \/ \E p \in Pids, i \in InputVideoRows(artifacts) :
          /\ RederiveBudget
          /\ Step([op |-> "ffmpeg_pipeline", project_id |-> p,
                   artifact_id |-> artifacts[i].id,
                   fate |-> [at |-> 0, how |-> "ok"], at |-> clock],
                  ffmpeg_pipeline(World, p, artifacts[i].id, [at |-> 0, how |-> "ok"]))
    \/ \E p \in Pids :
          /\ RederiveBudget
          /\ Step([op |-> "estimate_export_zip", project_id |-> p,
                   body |-> ClipsExport, at |-> clock],
                  estimate_export_zip(World, p, ClipsExport))
    \/ \E p \in Pids :
          /\ RederiveBudget
          /\ Step([op |-> "export_zip", project_id |-> p, body |-> ClipsExport,
                   at |-> clock],
                  export_zip(World, p, ClipsExport))

SpecRederive == Init /\ [][NextRederive]_vars

ClipKinds == {<<"clip_start">>, <<"clip_mid">>, <<"clip_end">>}

\* the rowids of a project's artifacts of a kind
KindRows(project_id, kind) ==
    {i \in RowsOf(artifacts, project_id) : artifacts[i].kind = kind}

\* the row of a kind that was registered last
LastRegistered(project_id, kind) ==
    LET rows == KindRows(project_id, kind)
    IN artifacts[CHOOSE i \in rows : \A j \in rows : j <= i]

\* the last request derived again, without running a tool, a video whose clips
\* were registered before those of another derivation
RederivedOlder ==
    /\ req.op = "ffmpeg_pipeline"
    /\ resp.status = "ok"
    /\ calls = <<>>
    /\ \A k \in 1..3 :
          resp.clips[k].path # LastRegistered(req.project_id, resp.clips[k].kind).path

\* the step is an estimate or an export with include_clips
ClipsRequested ==
    /\ clock' = clock
    /\ req'.op \in {"estimate_export_zip", "export_zip"}
    /\ ExportFlags(req'.body).include_clips
    /\ resp'.status = "ok"

\* the later derivation carries the greater created_at_ms, for every clip kind
LaterIsNewer ==
    \A kind \in ClipKinds :
       \A i \in KindRows(req.project_id, kind) :
          \/ artifacts[i] = LastRegistered(req.project_id, kind)
          \/ artifacts[i].created_at_ms
                < LastRegistered(req.project_id, kind).created_at_ms

SelectsLaterDerivation ==
    \A kind \in ClipKinds :
       LatestArtifactPath(World, req.project_id, kind)
          = Some(LastRegistered(req.project_id, kind).path)

DerivedArtifacts(r) == <<r.metadata>> \o r.clips \o <<r.audio>> \o r.thumbnails

\* the response carries the ids and paths registered for the outputs of the
\* input_video artifact of row i
SameAsDerivedFrom(r, project_id, i) ==
    LET rel == OutputPaths(project_id, artifacts[i].id)
    IN \A k \in 1..8 :
          \E h \in ArtifactHits(World, project_id, <<OutputKinds[k]>>, rel[k]) :
             /\ DerivedArtifacts(r)[k].id = artifacts[h].id
             /\ DerivedArtifacts(r)[k].path = artifacts[h].path

SameSizeAndMtime(p, q) ==
    /\ files[p].size = files[q].size
    /\ files[p].mtime = files[q].mtime

\* C33: within a project, an ffmpeg_pipeline call on an input_video artifact
\* returns the derived artifacts (ids and paths) of an earlier derivation of
\* another input_video artifact exactly when the two backing files have the
\* same size and mtime; the call then starts no tool and writes no file: its
\* outputs are those derived from the first file.
SameFingerprintSharesOutputs ==
    [][(/\ clock' = clock
        /\ req'.op = "ffmpeg_pipeline"
        /\ resp'.status = "ok")
       => \A i \in InputVideoRows(artifacts) :
             (/\ artifacts[i].id # req'.artifact_id
              /\ DerivedBefore(req'.project_id, artifacts[i].id))
             => LET mine == artifacts[MinOf(SourceRows(req'.project_id,
                                                       req'.artifact_id))].path
                    same == SameSizeAndMtime(artifacts[i].path, mine)
                IN /\ SameAsDerivedFrom(resp', req'.project_id, i) <=> same
                   /\ same => (calls' = <<>> /\ files' = files
                               /\ artifacts' = artifacts)]_vars

\* a video imported after the derivation of another one of the same size and
\* mtime was derived without a tool
SecondVideoAnsweredFromFirst ==
    /\ req.op = "ffmpeg_pipeline"
    /\ resp.status = "ok"
    /\ calls = <<>>
    /\ \E i, j \in InputVideoRows(artifacts) :
          /\ artifacts[j].id = req.artifact_id
          /\ i # j
          /\ SameSizeAndMtime(artifacts[i].path, artifacts[j].path)
          /\ \E h \in 1..Len(artifacts) :
                /\ artifacts[h].id = resp.clips[1].id
                /\ i < h
                /\ h < j

-----------------------------------------------------------------------------
(* Pool items: keys the caller supplies beside keys derived from a URL *)

\* the explicit keys callers supply: a name, and a string that begins "url:"
ExplicitKeys == {<<"k">>, <<" ", "url:", "http://", "a.com">>}

\* submissions with an explicit key and without a URL, and submissions with a
\* URL and without a key
KeyInputs ==
    {PoolBody(<<"note">>, None, None, None, Some(key), None, selected) :
        key \in ExplicitKeys, selected \in {None, Some(FALSE)}}
    \cup {PoolBody(<<"link">>, None, Some(u), None, None, None, selected) :
             u \in UrlVariants(<<"http://", "a.com">>),
             selected \in {None, Some(FALSE)}}

NextKeys ==
    \/ CreateProject(MaxEvents)
    \/ Tick
    \/ \E p \in Pids, r \in KeyInputs : AddPoolItem(MaxEvents, p, r)

SpecKeys == Init /\ [][NextKeys]_vars

\* the request's key is derived from its source URL
KeyDerivedFromUrl(r) ==
    /\ TrimmedOpt(r.dedup_key) = None
    /\ TrimmedOpt(IF r.source_url # None THEN r.source_url ELSE r.url) # None

\* C34: the dedup_key add_pool_item derives from a source URL equals no
\* explicit key a caller supplies, so a submission keyed by its URL never
\* lands on the row of a submission with an explicit key.
DerivedKeyIsNoExplicitKey ==
    [][(/\ clock' = clock
        /\ req'.op = "add_pool_item"
        /\ resp'.status = "ok"
        /\ KeyDerivedFromUrl(req'.body))
       => /\ \A key \in ExplicitKeys : resp'.item.dedup_key # Trim(key)
          /\ \A i \in 1..Len(pool_items) :
                (pool_items[i].source_url = None /\ pool_items[i].data_json = None)
                => pool_items'[i] = pool_items[i]]_vars

-----------------------------------------------------------------------------
(* The clip and thumbnail offsets of a probed duration *)

\* what metadata.json holds as format.duration, in milliseconds: -1 stands for
\* a value that is absent or does not parse
DurationInputs ==
    {DurationStep * n : n \in 0..MaxDurationSteps}
    \cup {-1, 1, clip_len_s * 1000 - 1, clip_len_s * 1000 + 1}

\* uploads of those durations
DurationUploads ==
    {Some([name |-> <<"v", ".mp4">>, size |-> 2, dur |-> d]) : d \in DurationInputs}

NextOffsets ==
    \/ CreateProject(MaxEvents)
    \/ \E p \in Pids, upload \in DurationUploads :
          /\ Cardinality(InputVideoRows(artifacts)) < MaxVideos
          /\ ImportLocalVideo(MaxEvents, p, upload)
    \/ \E p \in Pids, i \in InputVideoRows(artifacts) :
          FfmpegPipeline(MaxEvents, p, artifacts[i].id, [at |-> 0, how |-> "ok"])

SpecOffsets == Init /\ [][NextOffsets]_vars

\* C35: for a probed duration d >= 0 and the clip length L = 6 s, the offsets
\* handed to ffmpeg for the clips and the thumbnails are start = 0,
\* mid = max(0, d/2 - L/2) (to the millisecond) and end = d - L if d > L, else
\* 0; so 0 = start <= mid <= end, all three are 0 when d <= L, and a duration
\* that does not parse counts as 0.
OffsetsAreOrdered ==
    [][(/\ req'.op = "ffmpeg_pipeline"
        /\ resp'.status = "ok"
        /\ Len(calls') = 8)
       => LET src == artifacts[MinOf(SourceRows(req'.project_id,
                                                req'.artifact_id))].path
              d == IF files[src].dur = -1 THEN 0 ELSE files[src].dur
              L == clip_len_s * 1000
              start == calls'[2].ss
              mid == calls'[3].ss
              end == calls'[4].ss
          IN /\ <<calls'[6].ss, calls'[7].ss, calls'[8].ss>> = <<start, mid, end>>
             /\ start = 0
             /\ 2 * mid <= Max(0, d - L)
             /\ Max(0, d - L) <= 2 * mid + 1
             /\ end = (IF d > L THEN d - L ELSE 0)
             /\ start <= mid
             /\ mid <= end
             /\ d <= L => (mid = 0 /\ end = 0)]_vars

\* a derivation of a source longer than the clip length: three distinct offsets
DistinctOffsets ==
    /\ req.op = "ffmpeg_pipeline"
    /\ resp.status = "ok"
    /\ Len(calls) = 8
    /\ 0 < calls[3].ss
    /\ calls[3].ss < calls[4].ss

\* a derivation of a source whose duration does not parse: all offsets 0
UnparsedDurationCountsAsZero ==
    /\ req.op = "ffmpeg_pipeline"
    /\ resp.status = "ok"
    /\ Len(calls) = 8
    /\ \E p \in DOMAIN files : files[p].dur = -1
    /\ calls[4].ss = 0

-----------------------------------------------------------------------------
(* Selecting and deselecting pool items, in two projects *)

SelectInputs ==
    {PoolBody(<<"link">>, Some(<<"t">>), Some(<<"http://", "a.com">>), None, None,
              None, None),
     PoolBody(<<"note">>, None, None, None, Some(<<"k">>), Some(<<"d">>), None)}

\* the item ids a request path can carry: those that exist and one that does not
ItemIdInputs == {pool_items[i].id : i \in 1..Len(pool_items)} \cup {"zz"}

NextSelect ==
    \/ /\ Budget(MaxSelectEvents)
       /\ Cardinality(projects) < MaxSelectProjects
       /\ Step([op |-> "create_project", at |-> clock], create_project(World))
    \/ \E p \in Pids, r \in SelectInputs : AddPoolItem(MaxSelectEvents, p, r)
    \/ \E p \in PidInputs, item_id \in ItemIdInputs, selected \in BOOLEAN :
          SetPoolItemSelected(MaxSelectEvents, p, item_id, selected)

SpecSelect == Init /\ [][NextSelect]_vars

\* the rows a set_pool_item_selected request names
NamedItems(r) ==
    {i \in 1..Len(pool_items) : /\ pool_items[i].project_id = r.project_id
                                /\ pool_items[i].id = r.item_id}

SelectStep ==
    /\ clock' = clock
    /\ req'.op = "set_pool_item_selected"

\* C36: set_pool_item_selected on an existing item succeeds and changes that
\* item's selected flag only: its id, kind, title, source_url, license,
\* dedup_key, data_json and created_at_ms stay, and every other pool item of
\* every project stays as it was.
SelectChangesOneFlag ==
    [][(SelectStep /\ NamedItems(req') # {})
       => /\ resp'.status = "ok"
          /\ Len(pool_items') = Len(pool_items)
          /\ \A i \in 1..Len(pool_items) :
                pool_items'[i] =
                   IF i \in NamedItems(req')
                   THEN [pool_items[i] EXCEPT !.selected = req'.selected]
                   ELSE pool_items[i]
          /\ \A i \in NamedItems(req') : resp'.item = pool_items'[i]]_vars

\* an item was deselected while an item of another project and another item of
\* its own project stay selected
DeselectedOneOfThree ==
    /\ req.op = "set_pool_item_selected"
    /\ resp.status = "ok"
    /\ ~resp.item.selected
    /\ \E i, j \in 1..Len(pool_items) :
          /\ pool_items[i].project_id = req.project_id
          /\ pool_items[i].id # req.item_id
          /\ pool_items[i].selected
          /\ pool_items[j].project_id # req.project_id
          /\ pool_items[j].selected

\* C37: set_pool_item_selected with an item id that no pool item of the
\* existing project has answers not found and leaves the store as it was,
\* the events included.
UnknownItemChangesNothing ==
    [][(/\ SelectStep
        /\ ProjectExists(World, req'.project_id)
        /\ req'.item_id = "zz")
       => /\ resp'.status = "not_found"
          /\ pool_items' = pool_items
          /\ artifacts' = artifacts
          /\ files' = files
          /\ events' = events]_vars

-----------------------------------------------------------------------------
(* Exports: two export_zip requests at once.  Each request runs on its own   *)
(* connection, statement by statement: load_profile and save_profile of one  *)
(* request are two statements, with no transaction around them.              *)

\* the request up to the INSERT of the session summary's artifact: the archive,
\* its artifact and event, the summary file and its artifact
ArchivedOnly == [at |-> 5, warn_lost |-> TRUE]

\* worker k has the archive written and registered, and its answer ready
Archived(k, r, out) ==
    /\ out.resp.status = "ok"
    /\ artifacts' = out.w.artifacts
    /\ events' = out.w.events
    /\ files' = out.w.files
    /\ uuid' = out.w.uuid
    /\ loc' = [loc EXCEPT ![k] = [r EXCEPT !.answer = out.resp]]

\* export_zip up to load_profile
ExportArchive(k, project_id, r) ==
    /\ pc[k] = "idle"
    /\ Len(events) + 3 * Cardinality(InFlight) < MaxSeenEvents
    /\ Archived(k, [op |-> "export_zip", project_id |-> project_id, body |-> r,
                    at |-> clock, answer |-> NoResponse, loaded |-> DefaultProfile],
                export_zip_under(World, project_id, r, ArchivedOnly))
    /\ pc' = [pc EXCEPT ![k] = "load"]
    /\ UNCHANGED <<app, projects, pool_items, consents, profile, clock, calls,
                   req, resp>>

\* let mut profile = load_profile(conn)?
ExportLoad(k) ==
    /\ pc[k] = "load"
    /\ loc' = [loc EXCEPT ![k] = [@ EXCEPT !.loaded = load_profile(World)]]
    /\ pc' = [pc EXCEPT ![k] = "save"]
    /\ UNCHANGED <<app, projects, artifacts, pool_items, consents, events, profile,
                   files, uuid, clock, calls, req, resp>>

Saved(out) ==
    /\ profile' = out.w.profile
    /\ files' = out.w.files
    /\ events' = out.w.events
    /\ artifacts' = out.w.artifacts
    /\ uuid' = out.w.uuid

\* the profile this request loaded, counted up and merged, is saved, and the
\* request is answered
ExportSave(k) ==
    /\ pc[k] = "save"
    /\ Saved(update_profile_after_export_steps(
                [World EXCEPT !.profile = <<loc[k].loaded>>],
                loc[k].project_id, loc[k].at, ExportFlags(loc[k].body), 0))
    /\ req' = [op |-> loc[k].op, project_id |-> loc[k].project_id,
               body |-> loc[k].body, at |-> loc[k].at]
    /\ resp' = loc[k].answer
    /\ pc' = [pc EXCEPT ![k] = "idle"]
    /\ loc' = [loc EXCEPT ![k] = NoRequest]
    /\ UNCHANGED <<app, projects, pool_items, consents, clock, calls>>

NextSeen ==
    \/ /\ InFlight = {}
       /\ CreateProject(MaxSeenEvents)
    \/ \E p \in Pids :
          /\ InFlight = {}
          /\ AddPoolItem(MaxSeenEvents, p,
                         PoolBody(<<"link">>, None, Some(<<"http://", "a.com">>), None,
                                  None, None, None))
    \/ \E p \in Pids \cup {"zz"} :
          /\ InFlight = {}
          /\ EstimateExportZip(MaxSeenEvents, p, DefaultExport)
    \/ \E k \in Workers, p \in Pids, r \in {DefaultExport, EverythingExport} :
          ExportArchive(k, p, r)
    \/ \E k \in Workers : ExportLoad(k)
    \/ \E k \in Workers : ExportSave(k)

SpecSeen == InitConsent /\ [][NextSeen]_vars

\* the profile updates that completed: each ends with its profile_updated event
ProfileUpdates == {e \in 1..Len(events) : events[e].message = "profile_updated"}

\* C38: exports_seen is the number of export_zip calls whose profile update
\* completed, for every interleaving of concurrent export_zip requests; an
\* estimate and a failed export leave it as it is.
ExportsSeenCountsExports ==
    load_profile(World).exports_seen = Cardinality(ProfileUpdates)

-----------------------------------------------------------------------------
(* Export: clips registered under paths of the caller's choice *)

ClipKindInputs == {<<"clip_start">>, <<"clip_mid">>}

\* out_paths: two directories with a file of one name, and a file of another name
ClipOutPaths == {<<"a", "/", "c.mp4">>, <<"b", "/", "c.mp4">>, <<"a", "/", "d.mp4">>}

NextNames ==
    \/ CreateProject(MaxExportEvents)
    \/ Tick
    \/ \E p \in Pids, kind \in ClipKindInputs, out_path \in ClipOutPaths,
          content \in ContentInputs :
          CreateTextArtifact(MaxExportEvents, p, kind, out_path, content)
    \/ \E p \in Pids : EstimateExportZip(MaxExportEvents, p, ClipsExport)
    \/ \E p \in Pids : ExportZip(MaxExportEvents, p, ClipsExport)

SpecNames == Init /\ [][NextNames]_vars

\* the step is an export_zip request with the flags of the successful estimate
\* that was answered last
ExportAfterEstimate ==
    /\ req.op = "estimate_export_zip"
    /\ resp.status = "ok"
    /\ clock' = clock
    /\ req'.op = "export_zip"
    /\ req'.project_id = req.project_id
    /\ req'.body = req.body

\* C39: when estimate_export_zip succeeded, export_zip called next with the
\* same flags on the unchanged store succeeds too, and the entry names it
\* writes are pairwise distinct, also when the latest artifacts of two clip
\* kinds have different paths with one file name.
ExportSucceedsAfterEstimate ==
    [][ExportAfterEstimate
       => /\ resp'.status = "ok"
          /\ ~HasDuplicateName(resp'.entries)
          /\ EntryNames(resp'.entries) = EntryNames(resp.files)]_vars

-----------------------------------------------------------------------------
(* Pool items: source URLs with inner whitespace and runs of slashes *)

\* URLs with whitespace before the fragment, with several trailing slashes, and
\* with whitespace between trailing slashes
SpacedUrls ==
    {<<"http://", "a.com", " ", "#", "x">>,
     <<"http://", "a.com", "/", "/", "/">>,
     <<"http://", "a.com", "/", " ", "/">>,
     <<" ", "HTTP://", "A.com", "/", "/", "#", "x", " ">>}

SpacedInputs ==
    {PoolBody(<<"link">>, None, Some(u), None, None, None, selected) :
        u \in SpacedUrls \cup UrlVariants(<<"http://", "a.com">>),
        selected \in {None, Some(FALSE)}}

NextUrls ==
    \/ CreateProject(MaxEvents)
    \/ Tick
    \/ \E p \in Pids, r \in SpacedInputs : AddPoolItem(MaxEvents, p, r)

SpecUrls == Init /\ [][NextUrls]_vars

\* C40: normalize_url_for_dedup is idempotent: the normal form that
\* add_pool_item stores behind "url:" is its own normal form, also for a URL
\* with whitespace before '#' or with several trailing slashes.
NormalFormIsNormal ==
    [][(/\ clock' = clock
        /\ req'.op = "add_pool_item"
        /\ resp'.status = "ok"
        /\ KeyDerivedFromUrl(req'.body))
       => normalize_url_for_dedup(Tail(resp'.item.dedup_key))
             = Tail(resp'.item.dedup_key)]_vars

-----------------------------------------------------------------------------
(* Profile memory across exports.  The profile row lives in the database    *)
(* file, which outlives the server: at startup it is absent or holds what   *)
(* exports of earlier runs saved.                                           *)

Counts(keys, counts) == [i \in 1..Len(keys) |-> [key |-> keys[i], count |-> counts[i]]]

SavedProfile(kind_counts, source_domain_counts) ==
    LET p == [version |-> 1, updated_at_ms |-> 0, exports_seen |-> 7,
              kind_counts |-> kind_counts,
              source_domain_counts |-> source_domain_counts,
              prompt |-> 0, last_session_summary |-> 150]
    IN [p EXCEPT !.prompt = build_profile_prompt(p)]

\* profiles of earlier runs with both tables full
SavedProfiles ==
    {SavedProfile(Counts(<<"image", "link", "note", "quote", "sound">>, <<2, 2, 1, 1, 1>>),
                  Counts(<<"a.com", "c.com", "d.com", "e.com", "f.com">>, <<3, 1, 1, 1, 1>>)),
     SavedProfile(Counts(<<"video", "text", "sound", "link", "note">>, <<4, 3, 2, 1, 1>>),
                  Counts(<<"a.com", "b.com", "c.com", "d.com", "e.com">>, <<1, 1, 1, 1, 1>>))}

InitProfile ==
    /\ InitStore
    /\ pc = <<>>
    /\ loc = <<>>
    /\ app \in {[ffmpeg |-> TRUE, ffprobe |-> TRUE, ytdlp |-> TRUE]}
    /\ profile \in {<<>>} \cup {<<p>> : p \in SavedProfiles}

ProfilePoolInputs ==
    {PoolBody(<<"image">>, None, None, None, Some(<<"k1">>), None, None),
     PoolBody(<<"video">>, None, None, None, Some(<<"k2">>), None, None),
     PoolBody(<<"video">>, None, None, None, Some(<<"k3">>), None, None),
     PoolBody(<<"text">>, None, None, None, Some(<<"k1">>), None, Some(FALSE)),
     PoolBody(<<LongKind>>, None, None, None, Some(<<"k2">>), None, None)}

ProfileUrlInputs ==
    {<<"http://", "B.com", "/", "x">>, <<"https://", "u", "@", "g.com", ":", "80">>,
     <<"http://", "a.com">>}

NextProfile ==
    \/ CreateProject(MaxProfileEvents)
    \/ Tick
    \/ \E p \in Pids, r \in ProfilePoolInputs : AddPoolItem(MaxProfileEvents, p, r)
    \/ \E p \in Pids, url \in ProfileUrlInputs : AddInputUrl(MaxProfileEvents, p, url)
    \/ \E p \in Pids : ExportZip(MaxProfileEvents, p, DefaultExport)
    \/ ResetProfile(MaxProfileEvents)

SpecProfile == InitProfile /\ [][NextProfile]_vars

\* a frequency table with at most 5 entries, no key twice, ordered by count
\* descending and, for equal counts, by key ascending
TopTable(t) ==
    /\ Len(t) <= 5
    /\ \A i, j \in 1..Len(t) :
          i < j => /\ t[i].key # t[j].key
                   /\ \/ t[i].count > t[j].count
                      \/ /\ t[i].count = t[j].count
                         /\ KeyRank(t[i].key) < KeyRank(t[j].key)

\* C10: after any sequence of successful exports and profile resets, the
\* persisted profile's kind_counts and source_domain_counts each have at most
\* 5 entries, no duplicate keys, and are ordered by descending count and, for
\* equal counts, by ascending key.
ProfileTablesAreTopFive ==
    \A i \in 1..Len(profile) :
        /\ TopTable(profile[i].kind_counts)
        /\ TopTable(profile[i].source_domain_counts)

\* an export has pushed a kind and a source domain into full tables: both
\* are in, and the tables still hold five entries
ProfileTablesDisplaced ==
    /\ req.op = "export_zip"
    /\ resp.status = "ok"
    /\ profile # <<>>
    /\ profile[1].exports_seen > 7
    /\ Len(profile[1].kind_counts) = 5
    /\ Len(profile[1].source_domain_counts) = 5
    /\ \E i \in 1..5 : profile[1].kind_counts[i].key = "video"
    /\ \A i \in 1..5 : profile[1].kind_counts[i].key # "sound"
    /\ \E i \in 1..5 : profile[1].source_domain_counts[i].key = "b.com"
    /\ \A i \in 1..5 : profile[1].source_domain_counts[i].key # "f.com"

-----------------------------------------------------------------------------
(* Exports whose profile update fails.  A statement of                      *)
(* update_profile_after_export fails when the disk or the database refuses  *)
(* it; the INSERT of the warn event that follows is one more statement.      *)

FaultInputs == {NoFault} \cup [at : ProfileUpdateSteps, warn_lost : BOOLEAN]

NextFault ==
    \/ CreateProject(MaxFaultEvents)
    \/ Tick
    \/ \E p \in Pids :
          AddPoolItem(MaxFaultEvents, p,
                      PoolBody(<<"video">>, None, None, None, Some(<<"k1">>), None, None))
    \/ \E p \in Pids : AddInputUrl(MaxFaultEvents, p, <<"http://", "a.com">>)
    \/ \E p \in Pids, fault \in FaultInputs :
          ExportZipUnder(MaxFaultEvents, p, DefaultExport, fault)

SpecFault == Init /\ [][NextFault]_vars

\* the step is an export_zip on an existing project in which a statement of
\* update_profile_after_export fails
FaultedExport ==
    /\ clock' = clock
    /\ req'.op = "export_zip"
    /\ ProjectExists(World, req'.project_id)
    /\ req'.fault.at # 0

\* the step recorded an event of this level and message for the project
Recorded(level, message) ==
    \E k \in (Len(events) + 1)..Len(events') :
        events'[k] = [project_id |-> req'.project_id, ts_ms |-> clock,
                      level |-> level, message |-> message]

\* the export answers ok, its export_zip artifact is registered and its export
\* event recorded
ExportSurvives ==
    /\ resp'.status = "ok"
    /\ resp'.zip.kind = <<"export_zip">>
    /\ \E i \in 1..Len(artifacts') : artifacts'[i] = resp'.zip
    /\ FileExists([files |-> files'], resp'.zip.path)
    /\ Recorded("info", "export_zip")

-----------------------------------------------------------------------------
(* Requests refused at the boundary *)

\* the request is one the handlers refuse as invalid input: a blank project
\* id; a URL that does not start with http:// or https:// in add_input_url and
\* import_remote_media; a blank kind in add_pool_item and create_text_artifact;
\* an out_path without a usable segment in create_text_artifact; a blank
\* artifact id in ffmpeg_pipeline
InvalidInput(r) ==
    /\ r.op \notin {"none", "create_project", "import_manifest", "reset_profile",
                  "remove_file"}
    /\ \/ IsBlankId(r.project_id)
       \/ r.op \in {"add_input_url", "import_remote_media"} /\ ~WellFormedUrl(r.url)
       \/ r.op = "add_pool_item" /\ Trim(r.body.kind) = <<>>
       \/ r.op = "create_text_artifact"
            /\ (Trim(r.kind) = <<>> \/ sanitize_out_path(Trim(r.out_path)) = None)
       \/ r.op = "ffmpeg_pipeline" /\ IsBlankId(r.artifact_id)

\* C18: every request rejected as invalid input is answered as a bad request
\* and leaves the store and the filesystem exactly as they were: no project,
\* artifact, pool item, consent, event, profile or file is created or changed,
\* and no tool is started.
InvalidInputChangesNothing ==
    [][(clock' = clock /\ InvalidInput(req')) =>
          /\ resp'.status = "bad_request"
          /\ calls' = <<>>
          /\ <<projects, artifacts, pool_items, consents, events, profile, files>>'
               = <<projects, artifacts, pool_items, consents, events, profile, files>>]_vars

\* a text artifact with an out_path of dots only was refused on a project that
\* holds artifacts and files
UnusableOutPathRefused ==
    /\ req.op = "create_text_artifact"
    /\ req.project_id \in projects
    /\ req.out_path = <<"..", "/", ".">>
    /\ Trim(req.kind) # <<>>
    /\ resp.status = "bad_request"
    /\ artifacts # <<>>
    /\ files # <<>>

\* C11: after every update_profile_after_export the persisted profile's prompt
\* has at most 800 characters and its last_session_summary at most 400,
\* whatever the length of the pool kinds and source domains.
ProfileTextWithinLimits ==
    \A i \in 1..Len(profile) :
        /\ profile[i].prompt <= 800
        /\ profile[i].last_session_summary <= 400

====
